---- MODULE Spec2Model ----
(***************************************************************************)
(* The debug tracing service (crates/rpc/rpc/src/debug.rs): the admission  *)
(* gate of the DebugApiServer handlers, the block replay kernel            *)
(* (trace_block), the raw-block and by-id block traces, the transaction    *)
(* trace and the prelude of debug_trace_call_many.                         *)
(*                                                                         *)
(* A request is one call of a DebugApiServer handler.  The handler is an   *)
(* async future that first awaits a trace permit, then resolves the        *)
(* environment, then hands a closure to the blocking worker pool and       *)
(* awaits its result.  The closure is sequential code on a thread of the    *)
(* blocking pool: it runs one unit at a time (the acquisition of its state *)
(* view, one iteration of one of its loops), next to the closures of other *)
(* requests.  Its database is a cache of its own over the state the        *)
(* provider holds for a block; every unit reads through the cache to the   *)
(* provider and leaves behind what its database operations wrote where.    *)
(* The closure records what it did in a trail.                             *)
(***************************************************************************)
EXTENDS Integers, Sequences, FiniteSets, TLC

\* ------------------------------------------------------------------ bounds

\* number of concurrent requests of the admission-gate specification
NumReq == 2
\* capacity of the BlockingTaskGuard semaphore (a configuration value)
PermitCapacity == 1
\* longest block body (canonical or caller-supplied)
MaxBody == 3
\* account values are kept modulo ValMod
ValMod == 3
\* first block number at which Homestead (EIP-2) is active in the chain spec
HomesteadBlock == 1

\* ------------------------------------------------------------------- state

VARIABLES
    js_tracer,  \* whether the build has the cargo feature "js-tracer"
    pending_block, \* whether the provider can produce a pending block
    system_calls, \* what the pre-block system calls and the witness computation do on this chain
    chain,      \* the body of the canonical head block
    store,      \* the state the provider holds for each block of the chain
    permits,    \* permits available in the BlockingTaskGuard semaphore
    waiters,    \* the requests queued in the semaphore, first come first
    closed,     \* whether the semaphore has been closed
    pc,         \* per request: where its handler future is
    permit,     \* per request: the handler's `_permit` binding, or "assigned" while
                \* its pending acquire_owned holds a permit handed over to it
    args,       \* per request: the arguments of the call
    worker,     \* per request: its closure on the blocking worker pool
    wout,       \* per request: what its closure returned, and its trail
    local,      \* per request: the locals of its closure while it runs
    resolved,   \* per request: what the handler did before awaiting the worker
    result      \* per request: the result returned to the caller

vars == <<js_tracer, pending_block, system_calls, chain, store, permits, waiters, closed, pc, permit, args, worker,
          wout, local, resolved, result>>

\* ------------------------------------------------------------- chain data

Acct == {"A", "B"}
NoHash == "none"
ZeroHash == "zero"
GenesisHash == "g"
HeadHash == "b1"
UnknownHash == "hx"
PendingHash == "bp"

\* A signed transaction: its hash, what it does when executed, and the kind
\* of its signature: "ok" recovers under both rules, "highS" only under the
\* relaxed (pre-EIP-2) rule, "bad" under neither.
MkTx(h, op, sig) == [hash |-> h, op |-> op, sig |-> sig]

TxInc == MkTx("ta", "inc", "ok")
TxCopy == MkTx("tb", "copy", "ok")
TxRevert == MkTx("tc", "revert", "ok")
TxHighS == MkTx("th", "inc", "highS")
TxBadSig == MkTx("tx", "copy", "bad")
TxInvalid == MkTx("ti", "invalid", "ok")

\* transactions a sealed canonical block can hold: valid and recoverable
CanonTxs == {TxInc, TxCopy, TxRevert}
\* transactions a caller can put into a raw block
RawTxs == CanonTxs \cup {TxHighS, TxBadSig, TxInvalid}

RECURSIVE SeqsUpTo(_, _)
SeqsUpTo(S, n) ==
    IF n = 0 THEN {<< >>}
    ELSE LET shorter == SeqsUpTo(S, n - 1)
         IN shorter \cup {Append(s, x) : s \in {t \in shorter : Len(t) = n - 1}, x \in S}

Injective(s) == \A i, j \in 1..Len(s) : s[i] = s[j] => i = j

\* bodies of a canonical block: no transaction twice
CanonBodies == {s \in SeqsUpTo(CanonTxs, MaxBody) : Injective(s)}
RawBodies == SeqsUpTo(RawTxs, MaxBody)

GenesisState == [a \in Acct |-> IF a = "A" THEN 1 ELSE 0]
EmptyDelta == [a \in {} |-> 0]

\* ------------------------------------------------------------- the EVM

\* Execution of one transaction against the state `view` (what the database
\* returns for every account).  ok = FALSE is an EVM error (an invalid
\* transaction); a revert is a successful execution with failed = TRUE and
\* no state change.  `state` is the state delta (revm's ResultAndState.state),
\* `pre` the accounts the execution loaded, with the values it found: an
\* account of value 0 is an account that does not exist.
Execute(view, tx) ==
    CASE tx.op = "inc" ->
           [ok |-> TRUE, failed |-> FALSE, out |-> (view["A"] + 1) % ValMod,
            state |-> [a \in {"A"} |-> (view["A"] + 1) % ValMod],
            pre |-> [a \in {"A"} |-> view["A"]]]
      [] tx.op = "copy" ->
           [ok |-> TRUE, failed |-> FALSE, out |-> view["A"],
            state |-> [a \in {"B"} |-> view["A"]],
            pre |-> [a \in Acct |-> view[a]]]
      [] tx.op = "revert" ->
           [ok |-> TRUE, failed |-> TRUE, out |-> 0,
            state |-> EmptyDelta, pre |-> [a \in {"B"} |-> view["B"]]]
      [] OTHER ->
           [ok |-> FALSE, failed |-> FALSE, out |-> 0,
            state |-> EmptyDelta, pre |-> EmptyDelta]

\* a full state with a delta applied
ApplyDelta(st, delta) == [a \in Acct |-> IF a \in DOMAIN delta THEN delta[a] ELSE st[a]]

\* the state after the sequential execution of txs[1..n] on st
RECURSIVE StateAfter(_, _, _)
StateAfter(st, txs, n) ==
    IF n = 0 THEN st
    ELSE LET before == StateAfter(st, txs, n - 1)
         IN ApplyDelta(before, Execute(before, txs[n]).state)

\* ------------------------------------------------------- the cache overlay

\* A database of a closure is two layers: `base`, the state the provider
\* holds for the block the state view was acquired at (the closure holds a
\* handle to it, not a copy), and `cache`, the accounts the closure's own
\* CacheDB holds.

\* CacheDB::new(StateProviderDatabase::new(state))
CacheDB(state) == [base |-> state, cache |-> EmptyDelta]

\* the closure's database when one of its units runs: the cache it has
\* built so far over what the provider holds now
Overlay(state, cache) == [CacheDB(state) EXCEPT !.cache = cache]

\* Database::basic: the cache answers for the accounts it holds, the
\* provider for the others
Read(db, a) == IF a \in DOMAIN db.cache THEN db.cache[a] ELSE db.base[a]

View(db) == [a \in Acct |-> Read(db, a)]

\* (a database that handed its writes on to the provider, instead of keeping
\* them in its cache, would commit with commit_through)
commit_through(db, delta) ==
    [db EXCEPT !.base = [a \in DOMAIN db.base |->
                            IF a \in DOMAIN delta THEN delta[a] ELSE db.base[a]]]
\* DatabaseCommit::commit on a CacheDB: the delta goes into the cache
commit(db, delta) ==
    [db EXCEPT !.cache = [a \in (DOMAIN delta) \cup (DOMAIN db.cache) |->
                             IF a \in DOMAIN delta THEN delta[a] ELSE db.cache[a]]]

\* ------------------------------------------------------ tracing options

\* whether the scripted tracer is compiled in: #[cfg(feature = "js-tracer")]
JsTracerEnabled == js_tracer

Tracers == {"default", "4byte", "call", "prestate", "noop", "mux", "flatCall", "js"}
\* tracers whose tracer_config is parsed (into_call_config, ...)
ConfigTracers == {"call", "prestate", "mux", "flatCall"}

\* GethDebugTracingOptions: the selector ("default" is the absent selector)
\* and whether tracer_config parses as the selected tracer's configuration.
Options == {o \in [tracer : Tracers, cfgOk : BOOLEAN] : o.cfgOk \/ o.tracer \in ConfigTracers}

\* (a parse that fell back to the default configuration would be
\* parse_tracer_config_lenient)
parse_tracer_config_lenient(opts) == TRUE
\* tracer_config.into_call_config() / into_pre_state_config() /
\* into_mux_config() / into_flat_call_config() is Ok
parse_tracer_config(opts) == opts.cfgOk

NoCtx == [block_hash |-> NoHash, tx_hash |-> NoHash, tx_index |-> 0 - 1]
TransactionContext(bh, th, i) == [block_hash |-> bh, tx_hash |-> th, tx_index |-> i]

\* Env::boxed(cfg_env, block_env, tx_env(tx))
Env(block_env, tx) == [block |-> block_env, tx |-> tx]

NoFrame == [kind |-> "none", op |-> "", out |-> 0, failed |-> FALSE,
            pre |-> EmptyDelta, ctx |-> NoCtx]
Frame(kind, op, r, pre, ctx) ==
    [kind |-> kind, op |-> op, out |-> r.out, failed |-> r.failed, pre |-> pre, ctx |-> ctx]
NoopFrame == [NoFrame EXCEPT !.kind = "noop"]

Ok(frame, state) == [ok |-> TRUE, err |-> "", frame |-> frame, state |-> state]
Err(e) == [ok |-> FALSE, err |-> e, frame |-> NoFrame, state |-> EmptyDelta]
\* eth_api.transact: an EVM error is an error of the request
Transact(r) == [ok |-> r.ok, err |-> IF r.ok THEN "" ELSE "Internal"]

\* eth_api().inspect(db, env, inspector) followed by the tracer's output
\* shaping: the frame of an executing tracer. An EVM error is an error.
Inspect(kind, env, db, ctx) ==
    LET r == Execute(View(db), env.tx)
    IN IF ~r.ok THEN Err("Internal")
       ELSE CASE kind = "4byte" -> Ok(Frame("4byte", env.tx.op, [out |-> 0, failed |-> FALSE],
                                            EmptyDelta, NoCtx), r.state)
              [] kind = "prestate" -> Ok(Frame("prestate", "", [out |-> 0, failed |-> FALSE],
                                               r.pre, NoCtx), r.state)
              [] kind = "mux" -> Ok(Frame("mux", env.tx.op, r, r.pre, NoCtx), r.state)
              [] kind = "js" -> Ok(Frame("js", env.tx.op, r, r.pre, ctx), r.state)
              [] OTHER -> Ok(Frame(kind, env.tx.op, r, EmptyDelta, NoCtx), r.state)

\* (a Noop arm that ran the transaction like the other arms and kept its
\* delta would be noop_trace_executing)
noop_trace_executing(env, db) ==
    LET r == Execute(View(db), env.tx)
    IN IF ~r.ok THEN Err("Internal") ELSE Ok(NoopFrame, r.state)
\* `NoopTracer => Ok((NoopFrame::default().into(), Default::default()))`
noop_trace(env, db) == Ok(NoopFrame, EmptyDelta)

\* DebugApi::trace_transaction: the frame and the state delta of one
\* transaction traced on the overlay `db`.
trace_transaction(opts, env, db, ctx) ==
    CASE opts.tracer = "default" -> Inspect("struct", env, db, ctx)
      [] opts.tracer = "4byte" -> Inspect("4byte", env, db, ctx)
      [] opts.tracer \in {"call", "prestate", "mux"} ->
           IF ~parse_tracer_config(opts) THEN Err("InvalidTracerConfig")
           ELSE Inspect(opts.tracer, env, db, ctx)
      [] opts.tracer = "noop" -> noop_trace(env, db)
      [] opts.tracer = "flatCall" -> Err("Unsupported")
      [] OTHER ->
           IF JsTracerEnabled THEN Inspect("js", env, db, ctx) ELSE Err("Unsupported")

\* ------------------------------------------------------------ the chain

\* The canonical chain is the genesis block and one sealed block on top of
\* it, whose body is `body`.
GenesisBlock == [hash |-> GenesisHash, number |-> 0, parent_hash |-> ZeroHash, body |-> << >>]
HeadBlock(body) == [hash |-> HeadHash, number |-> 1, parent_hash |-> GenesisHash, body |-> body]

\* the pending block on top of the head block, when there is one
\* (pending_block); the provider holds no state for it
PendingBlock == [hash |-> PendingHash, number |-> 2, parent_hash |-> HeadHash, body |-> <<TxCopy>>]

KnownHashes == {GenesisHash, HeadHash}

BlockByHash(body, h) ==
    CASE h = GenesisHash -> GenesisBlock
      [] h = PendingHash -> PendingBlock
      [] OTHER -> HeadBlock(body)
BlockByHashNumber(h) ==
    CASE h = GenesisHash -> 0
      [] h = PendingHash -> 2
      [] OTHER -> 1

\* BlockId::Hash, BlockId::Number and the tag `latest` (BlockId::default())
HashId(h) == [kind |-> "hash", hash |-> h, number |-> 0]
NumberId(n) == [kind |-> "number", hash |-> NoHash, number |-> n]
LatestId == [kind |-> "latest", hash |-> NoHash, number |-> 0]
PendingId == [kind |-> "pending", hash |-> NoHash, number |-> 0]
\* (a selector test that never recognised the pending tag would be is_pending_never)
is_pending_never(id) == FALSE
\* BlockId::is_pending
is_pending(id) == id.kind = "pending"
HashIds == {HashId(h) : h \in KnownHashes \cup {UnknownHash}}
NumberIds == {NumberId(n) : n \in 0..2} \cup {LatestId}
BlockIds == HashIds \cup NumberIds

\* provider.block_hash_for_id: NoHash when the id resolves to no block
block_hash_for_id(id) ==
    IF id.kind = "hash" THEN (IF id.hash \in KnownHashes THEN id.hash ELSE NoHash)
    ELSE IF id.kind = "latest" THEN HeadHash
    ELSE IF id.kind = "pending" THEN (IF pending_block THEN PendingHash ELSE NoHash)
    ELSE CASE id.number = 0 -> GenesisHash
           [] id.number = 1 -> HeadHash
           [] OTHER -> NoHash

\* the per-block environment of a header
BlockEnv(number) == [number |-> number, timestamp |-> 12 * number]

\* the states of the chain with head body `body`: the state after each block
ChainState(body) ==
    [h \in KnownHashes |->
        IF h = GenesisHash THEN GenesisState ELSE StateAfter(GenesisState, body, Len(body))]

\* state_at_block_id on the provider's states `st`: the state view at a
\* block, ok = FALSE when the provider has no state there
StateAtBlock(st, h) ==
    IF h \in KnownHashes THEN [ok |-> TRUE, state |-> st[h]]
    ELSE [ok |-> FALSE, state |-> GenesisState]

\* chain_spec().is_homestead_active_at_block
is_homestead_active_at_block(number) == number >= HomesteadBlock

\* tx.into_ecrecovered() (strict, EIP-2) and tx.into_ecrecovered_unchecked()
into_ecrecovered(tx) == tx.sig = "ok"
into_ecrecovered_unchecked(tx) == tx.sig \in {"ok", "highS"}

\* ------------------------------------------------------------- results

OkVal(v) == [ok |-> TRUE, err |-> "", val |-> v]
Error(e) == [ok |-> FALSE, err |-> e, val |-> << >>]
NoResult == [ok |-> FALSE, err |-> "pending", val |-> << >>]

Some(v) == [some |-> TRUE, value |-> v]
None == [some |-> FALSE, value |-> << >>]

\* provider.block_by_id, provider.block_with_senders_by_id,
\* eth_api.block_with_senders
block_by_id(body, id) ==
    LET h == block_hash_for_id(id)
    IN IF h = NoHash THEN None ELSE Some(BlockByHash(body, h))

\* EthApiError::HeaderNotFound(block_id): the error carries the selector
HeaderNotFound(id) == [ok |-> FALSE, err |-> "HeaderNotFound", val |-> <<id>>]
\* (a lookup that reported a missing block as an internal error would be this one)
ok_or_internal(opt, id) == IF opt.some THEN OkVal(opt.value) ELSE Error("Internal")
\* `.ok_or(EthApiError::HeaderNotFound(block_id))?`
ok_or_header_not_found(opt, id) == IF opt.some THEN OkVal(opt.value) ELSE HeaderNotFound(id)

\* eth_api.evm_env_at(at): the environment at a block and the selector of
\* the block whose state goes with it. For the pending tag the environment
\* is the pending block's, with the tag as selector, or, when there is no
\* pending block, one derived from the latest block, with the latest
\* block's hash as selector; any other id gives the environment of the
\* block it resolves to, with that block's hash, and fails with
\* HeaderNotFound when it resolves to no block
evm_env_at(id) ==
    IF is_pending(id)
    THEN OkVal([block_env |-> BlockEnv(PendingBlock.number),
                at |-> IF pending_block THEN PendingId ELSE HashId(HeadHash)])
    ELSE LET h == block_hash_for_id(id)
         IN IF h = NoHash THEN HeaderNotFound(id)
            ELSE OkVal([block_env |-> BlockEnv(BlockByHashNumber(h)), at |-> HashId(h)])

\* the block whose state the provider serves for a state selector: for the
\* pending tag the latest block, the provider holding no state of a pending
\* block
state_hash_for_id(id) == IF is_pending(id) THEN HeadHash ELSE block_hash_for_id(id)

\* (an entry pushed without the transaction's hash would be SuccessWithoutHash)
SuccessWithoutHash(frame, h) == [success |-> TRUE, result |-> frame, tx_hash |-> NoHash]
\* TraceResult::Success { result, tx_hash }
Success(frame, h) == [success |-> TRUE, result |-> frame, tx_hash |-> h]

\* What a worker closure returns: its result and the trail of what it did:
\* whether the state view was acquired and, per transaction it handled, the
\* overlay state visible to it, whether the EVM ran it, and whether its delta
\* was committed.
WorkerOut(res, acquired, execs) == [res |-> res, state |-> acquired, execs |-> execs]

Event(tx, db, block_env, ctx, mode, t, committed) ==
    [tx |-> tx.hash, op |-> tx.op, visible |-> View(db), block |-> block_env, ctx |-> ctx,
     mode |-> mode, ok |-> t.ok, err |-> IF t.ok THEN "" ELSE t.err,
     committed |-> t.ok /\ committed, override |-> FALSE]

\* A unit of a closure ends in one of two ways. Both leave the closure's
\* locals and the two layers of its database as the unit's operations made
\* them: `local` the locals with the cache, `base` what the provider holds.

\* the closure goes on: its loop has another iteration to run
Continue(L, db, execs) ==
    [local |-> [L EXCEPT !.cache = db.cache, !.execs = execs], base |-> db.base]
\* the closure returns `res`: a `?` on an error, or its last expression
Return(L, db, res, execs) ==
    [local |-> [L EXCEPT !.stage = "returned", !.cache = db.cache, !.execs = execs,
                         !.out = WorkerOut(res, TRUE, execs)],
     base |-> db.base]

\* ---------------------------------------------------------- trace_block

\* `if transactions.peek().is_some()`: the delta of transaction i of n is
\* committed when another transaction follows.
\* (a loop that looks two transactions ahead would be PeekSecondIsSome, a
\* loop that commits after every transaction PeekAlwaysSome)
PeekSecondIsSome(i, n) == i + 1 < n
PeekAlwaysSome(i, n) == TRUE
PeekIsSome(i, n) == i < n

\* the `?` on trace_transaction's result: the closure returns the error and
\* drops the results collected so far
\* (a loop that kept the results collected so far would be OnTraceErrorPartial)
OnTraceErrorPartial(err, results) == OkVal(results)
OnTraceError(err, results) == Error(err)

\* One iteration of `while let Some((index, tx)) = transactions.next()` in
\* the closure trace_block hands to spawn_with_state_at_block(at, ..):
\* transaction L.i is traced on the closure's database, its result pushed,
\* and its delta committed when another transaction follows. The context
\* carries `at.as_block_hash()`.
trace_block_step(txs, db, block_hash, block_env, opts, L) ==
    LET tx == txs[L.i]
        ctx == TransactionContext(block_hash, tx.hash, L.i - 1)
        t == trace_transaction(opts, Env(block_env, tx), db, ctx)
        more == PeekIsSome(L.i, Len(txs))
        execs == Append(L.execs, Event(tx, db, block_env, ctx, "trace", t, more))
        results == Append(L.results, Success(t.frame, tx.hash))
        after == IF more THEN commit(db, t.state) ELSE db
    IN IF ~t.ok THEN Return(L, db, OnTraceError(t.err, L.results), execs)
       ELSE IF L.i >= Len(txs)
            THEN Return([L EXCEPT !.results = results], after, OkVal(results), execs)
            ELSE Continue([L EXCEPT !.i = L.i + 1, !.results = results], after, execs)

\* What a handler does before it awaits a worker: either it is done with a
\* result, or it has spawned the closure described by `job`.  env: whether
\* the handler got an answer from the lookup of the environment (evm_env_at,
\* evm_env_for_raw_block); recovery: the outcome of signer recovery.
NoJob == [at |-> NoHash, txs |-> << >>, block_env |-> BlockEnv(0), block_hash |-> NoHash,
          target |-> 0]
Done(res, env, recovery) ==
    [spawn |-> FALSE, res |-> res, env |-> env, recovery |-> recovery, job |-> NoJob]
Spawned(job, env, recovery) ==
    [spawn |-> TRUE, res |-> NoResult, env |-> env, recovery |-> recovery, job |-> job]

\* (without the `transactions.is_empty()` return it would be trace_block_unguarded)
trace_block_unguarded(at, txs, block_env, env, recovery) ==
    Spawned([NoJob EXCEPT !.at = at, !.txs = txs, !.block_env = block_env], env, recovery)

\* DebugApi::trace_block up to the spawn
trace_block(at, txs, block_env, env, recovery) ==
    IF txs = << >> THEN Done(OkVal(<< >>), env, recovery)
    ELSE Spawned([NoJob EXCEPT !.at = at, !.txs = txs, !.block_env = block_env],
                 env, recovery)

\* ------------------------------------------------- debug_trace_raw_block

\* A caller-supplied RLP block: whether it decodes, and the decoded header
\* fields and body.
RawBlocks == [decodes : BOOLEAN, number : {HomesteadBlock - 1, HomesteadBlock},
              parent_hash : {GenesisHash, HeadHash, UnknownHash}, body : RawBodies]

\* (a recovery that ignored the fork would be RecoversAtUnchecked)
RecoversAtUnchecked(number, tx) == into_ecrecovered_unchecked(tx)

\* the signer recovery rule debug_trace_raw_block applies to a block number
RecoversAt(number, tx) ==
    IF is_homestead_active_at_block(number) THEN into_ecrecovered(tx)
    ELSE into_ecrecovered_unchecked(tx)

debug_trace_raw_block(raw, opts) ==
    IF ~raw.decodes THEN Done(Error("RlpDecodeRawBlock"), FALSE, "none")
    ELSE IF \E i \in 1..Len(raw.body) : ~RecoversAt(raw.number, raw.body[i])
         THEN Done(Error("InvalidTransactionSignature"), TRUE, "failed")
         ELSE trace_block(raw.parent_hash, raw.body, BlockEnv(raw.number), TRUE, "ok")

\* ----------------------------------------------------- debug_trace_block

\* The hash the selector resolves to is looked up first; the environment is
\* asked for that hash (`evm_env_at(block_hash.into())`), the block for the
\* selector itself, and the first error of the two ends the request.
debug_trace_block(body, block_id, opts) ==
    LET block_hash == block_hash_for_id(block_id)
    IN IF block_hash = NoHash THEN Done(HeaderNotFound(block_id), FALSE, "none")
       ELSE LET env == evm_env_at(HashId(block_hash))
                found == ok_or_header_not_found(block_by_id(body, block_id), block_id)
            IN IF ~env.ok THEN Done(env, TRUE, "none")
               ELSE IF ~found.ok THEN Done(found, TRUE, "none")
               ELSE LET block == found.val
                    IN trace_block(block.parent_hash, block.body, env.val.block_env, TRUE,
                                  "none")

\* ----------------------------------------------- debug_trace_transaction

\* eth_api.transaction_and_block: the position of the transaction in the
\* canonical chain, 0 when it is in no block
IndexOf(body, tx_hash) ==
    LET hits == {i \in 1..Len(body) : body[i].hash = tx_hash}
    IN IF hits = {} THEN 0 ELSE CHOOSE i \in hits : \A j \in hits : i <= j

debug_trace_transaction(body, tx_hash, opts) ==
    LET k == IndexOf(body, tx_hash)
    IN IF k = 0 THEN Done(Error("TransactionNotFound"), FALSE, "none")
       ELSE LET block == HeadBlock(body)
            IN Spawned([at |-> block.parent_hash, txs |-> block.body,
                        block_env |-> BlockEnv(block.number), block_hash |-> block.hash,
                        target |-> k], TRUE, "none")

\* One unit of the closure of debug_trace_transaction:
\* eth_api().replay_transactions_until executes and commits one transaction
\* of the block that precedes the target; when none is left the target is
\* traced at the index the replay stopped at, and the closure returns.
trace_transaction_step(job, db, opts, L) ==
    LET txs == job.txs
        tx == txs[job.target]
    IN IF L.i <= Len(txs) /\ txs[L.i].hash # tx.hash
       THEN LET r == Execute(View(db), txs[L.i])
                execs == Append(L.execs, Event(txs[L.i], db, job.block_env, NoCtx, "replay",
                                               Transact(r), TRUE))
            IN IF ~r.ok THEN Return(L, db, Error("Internal"), execs)
               ELSE Continue([L EXCEPT !.i = L.i + 1], commit(db, r.state), execs)
       ELSE LET ctx == TransactionContext(job.block_hash, tx.hash, L.i - 1)
                t == trace_transaction(opts, Env(job.block_env, tx), db, ctx)
                execs == Append(L.execs, Event(tx, db, job.block_env, ctx, "trace", t, FALSE))
            IN Return(L, db, IF t.ok THEN OkVal(<<t.frame>>) ELSE Error(t.err), execs)

\* ------------------------------------------------------ call overrides

\* Option<StateOverride>: the accounts whose value the caller replaces
NoStateOverride == [some |-> FALSE, accounts |-> EmptyDelta]
StateOverride(v) == [some |-> TRUE, accounts |-> [a \in {"A"} |-> v]]
\* Option<BlockOverrides>: the block number the caller substitutes
NoBlockOverride == [some |-> FALSE, number |-> 0]
BlockOverride(n) == [some |-> TRUE, number |-> n]

EvmOverrides(state_overrides, block_overrides) ==
    [state |-> state_overrides, block |-> block_overrides]

\* a TransactionRequest: a transaction without hash or signature
CallTx(op) == MkTx(NoHash, op, "ok")

\* eth_api().prepare_call_env: the block overrides change the environment of
\* this call, the state overrides are written into the overlay
prepare_call_env(block_env, tx, db, overrides) ==
    [env |-> Env(IF overrides.block.some
                 THEN [block_env EXCEPT !.number = overrides.block.number]
                 ELSE block_env, tx),
     db |-> IF overrides.state.some THEN commit(db, overrides.state.accounts) ELSE db]

\* ------------------------------------------------------ debug_trace_call

\* the frame debug_trace_call shapes from an inspection of the call
call_frame(opts, env, db) ==
    Inspect(IF opts.tracer = "default" THEN "struct" ELSE opts.tracer, env, db, NoCtx)

\* eth_api.spawn_with_call_at(call, at, ..) up to the spawn: evm_env_at(at),
\* then the closure on the state at the selector evm_env_at returned
spawn_with_call_at(at) ==
    LET env == evm_env_at(at)
    IN IF ~env.ok THEN Done(env, TRUE, "none")
       ELSE LET h == state_hash_for_id(env.val.at)
            IN Spawned([NoJob EXCEPT !.at = h, !.block_hash = h,
                                     !.block_env = env.val.block_env], TRUE, "none")

debug_trace_call(call, block_id, overrides, opts) ==
    CASE opts.tracer = "noop" -> Done(OkVal(<<NoopFrame>>), FALSE, "none")
      [] opts.tracer = "js" /\ ~JsTracerEnabled -> Done(Error("Unsupported"), FALSE, "none")
      [] opts.tracer \in ConfigTracers /\ ~parse_tracer_config(opts) ->
           Done(Error("InvalidTracerConfig"), FALSE, "none")
      [] opts.tracer = "flatCall" /\ parse_tracer_config(opts) ->
           \* spawn_trace_transaction_in_block_with_inspector on the default
           \* hash finds no transaction; no environment is looked up
           Done(Error("TransactionNotFound"), FALSE, "none")
      [] opts.tracer = "js" /\ JsTracerEnabled ->
           \* `let (_, _, at) = evm_env_at(at).await?`: the selector is
           \* rebound to the one evm_env_at returns before spawn_with_call_at
           LET first == evm_env_at(block_id)
           IN IF ~first.ok THEN Done(first, TRUE, "none")
              ELSE spawn_with_call_at(first.val.at)
      [] OTHER -> spawn_with_call_at(block_id)

\* the closure of spawn_with_call_at: the environment preparation with the
\* overrides, then the inspection of the call
trace_call_step(job, db, call, overrides, opts, L) ==
    LET p == prepare_call_env(job.block_env, call, db, overrides)
        t == call_frame(opts, p.env, p.db)
        execs == Append(L.execs, Event(call, p.db, p.env.block, NoCtx, "trace", t, FALSE))
    IN Return(L, p.db, IF t.ok THEN OkVal(<<t.frame>>) ELSE Error(t.err), execs)

\* ------------------------------------------------- debug_trace_call_many

\* `block_env.number += U256::from(1)` between bundles
BundleNumberStep == 1
\* `block_env.timestamp += U256::from(12)` between bundles
BundleTimeStep == 12

\* Bundle { transactions, block_override }
Bundle(transactions, block_override) ==
    [transactions |-> transactions, block_override |-> block_override]

\* TransactionIndex::All
AllTxs == 0 - 1

\* (a loop that committed only inside a bundle would use more_in_bundle_only)
more_in_bundle_only(more_txs, more_bundles) == more_txs
\* `if transactions.peek().is_some() || bundles.peek().is_some()`
more_remain(more_txs, more_bundles) == more_txs \/ more_bundles

\* (a block override taken like the state overrides, by the bundle's first
\* transaction alone, would be block_overrides_take)
block_overrides_take(block_overrides, j) ==
    IF j = 1 THEN block_overrides ELSE NoBlockOverride
\* `block_overrides.clone()`: transaction j of the bundle gets its own copy
block_overrides_clone(block_overrides, j) == block_overrides

\* (a loop that advanced the block number alone would be advance_number_only)
advance_number_only(block_env) ==
    [block_env EXCEPT !.number = block_env.number + BundleNumberStep]
\* the increment of block_env after each bundle
advance_block_env(block_env) ==
    [number |-> block_env.number + BundleNumberStep,
     timestamp |-> block_env.timestamp + BundleTimeStep]

\* (without the check of the bundle list it would be bundles_unchecked)
bundles_unchecked(bundles) == FALSE
\* `if bundles.is_empty()`
bundles_is_empty(bundles) == bundles = << >>

debug_trace_call_many(body, bundles, block_number, transaction_index, opts) ==
    IF bundles_is_empty(bundles)
    THEN Done(Error("InvalidParams: bundles are empty."), FALSE, "none")
    ELSE LET env == evm_env_at(block_number)
             found == ok_or_header_not_found(block_by_id(body, block_number), block_number)
         IN IF ~env.ok THEN Done(env, TRUE, "none")
            ELSE IF ~found.ok THEN Done(found, TRUE, "none")
            ELSE LET block == found.val
                     num_txs == IF transaction_index = AllTxs THEN Len(block.body)
                                ELSE transaction_index
                     whole == ~is_pending(block_number) /\ num_txs = Len(block.body)
                 IN Spawned([at |-> IF whole THEN block.hash ELSE block.parent_hash,
                             txs |-> IF whole THEN << >> ELSE block.body,
                             block_env |-> env.val.block_env,
                             block_hash |-> block.hash,
                             target |-> num_txs], TRUE, "none")

\* One unit of the closure of debug_trace_call_many. L.i is the block
\* transaction the replay is at, L.b the bundle and L.j the transaction of
\* the bundle the trace is at, L.so the state override still to be taken,
\* L.block_env the environment the bundles share.
\*   - `for tx in transactions { transact; commit }` over the first
\*     job.target transactions of the block;
\*   - then, per bundle, `while let Some(tx) = transactions.next()`: the
\*     environment is prepared with the bundle's block override and the
\*     state override taken, the transaction traced, its frame pushed and
\*     its delta committed when a transaction or a bundle follows;
\*   - at the end of a bundle its results are pushed and the shared
\*     environment advanced; after the last bundle the closure returns.
trace_call_many_step(job, db, bundles, opts, L) ==
    IF L.i <= job.target /\ L.i <= Len(job.txs)
    THEN LET tx == job.txs[L.i]
             r == Execute(View(db), tx)
             execs == Append(L.execs, Event(tx, db, job.block_env, NoCtx, "replay",
                                            Transact(r), TRUE))
         IN IF ~r.ok THEN Return(L, db, Error("Internal"), execs)
            ELSE Continue([L EXCEPT !.i = L.i + 1], commit(db, r.state), execs)
    ELSE LET txs == bundles[L.b].transactions
         IN IF L.j > Len(txs)
            THEN LET all == Append(L.all, L.results)
                     next == [L EXCEPT !.b = L.b + 1, !.j = 1, !.results = << >>, !.all = all,
                                       !.block_env = advance_block_env(L.block_env)]
                 IN IF L.b >= Len(bundles) THEN Return(next, db, OkVal(all), L.execs)
                    ELSE Continue(next, db, L.execs)
            ELSE LET p == prepare_call_env(L.block_env, txs[L.j], db,
                                           EvmOverrides(L.so,
                                               block_overrides_clone(bundles[L.b].block_override,
                                                                     L.j)))
                     t == trace_transaction(opts, p.env, p.db, NoCtx)
                     keep == more_remain(PeekIsSome(L.j, Len(txs)), PeekIsSome(L.b, Len(bundles)))
                     ev == [Event(txs[L.j], p.db, p.env.block, NoCtx, "trace", t, keep)
                               EXCEPT !.override = L.so.some]
                     execs == Append(L.execs, ev)
                 IN IF ~t.ok THEN Return(L, p.db, Error(t.err), execs)
                    ELSE Continue([L EXCEPT !.j = L.j + 1, !.so = NoStateOverride,
                                            !.results = Append(L.results, t.frame)],
                                  IF keep THEN commit(p.db, t.state) ELSE p.db, execs)

\* ----------------------------------------------- debug_execution_witness

\* Byte strings are sequences of symbols.  keccak256 is collision free: the
\* digest of a byte string names that byte string.  The RLP encoding of a
\* 20-byte address or a 32-byte slot is its length prefix and then its bytes.
keccak256(x) == <<"keccak256">> \o x
rlp_encode(x) == <<"rlp_prefix">> \o x
\* the bytes of an address
address_bytes(a) == <<a>>

\* (a witness that always carried its preimage map would use always_some)
always_some(b, v) == [some |-> TRUE, value |-> v]
\* bool::then_some: Some(v) when b, None otherwise
then_some(b, v) == [some |-> b, value |-> IF b THEN v ELSE {}]

\* (an entry keyed by the digest of the stored value would be this one)
preimage_entry_of_value(a) ==
    <<keccak256(rlp_encode(address_bytes(a))), rlp_encode(address_bytes(a))>>
\* state_preimages.insert(hashed_address, alloy_rlp::encode(address)): the key
\* is the digest of the address itself, the value its RLP encoding
preimage_entry(a) == <<keccak256(address_bytes(a)), rlp_encode(address_bytes(a))>>

\* `if let Some(account) = account.account`: whether a cached account holds
\* an account; a cached account that was loaded as not existing, or was
\* destroyed, holds none
account_is_some(db, a) == db.cache[a] # 0

\* `B256::from(slot)`: the bytes of a storage key
slot_bytes(slot) == <<"slot", slot>>
\* the storage key under which an account keeps its value
ValueSlot == 0
\* `account.storage` of a cached account that holds an account: the slots
\* the executions on this database have read or written for it
account_storage(db, a) == {ValueSlot}
\* state_preimages.insert(hashed_slot, alloy_rlp::encode(slot)), with
\* hashed_slot = keccak256(B256::from(slot))
slot_preimage_entry(slot) == <<keccak256(slot_bytes(slot)), rlp_encode(slot_bytes(slot))>>

\* (a replay that dropped the result of a transaction would leave LoadedOnly)
LoadedOnly(db, r) == db
\* the accounts the cache of the revm State holds after a transaction: the
\* accounts it read, with the values it wrote (`db.commit(res.state)`)
Loaded(db, r) ==
    commit([db EXCEPT !.cache = [a \in (DOMAIN r.pre) \cup (DOMAIN db.cache) |->
                                    IF a \in DOMAIN db.cache THEN db.cache[a] ELSE r.pre[a]]],
           r.state)

\* What the steps of the witness computation that are not in this file do
\* on a chain. A pre-block system call is "skipped" when its fork is not
\* active at the block (Ok, nothing executed), "applied" when it ran and
\* its delta was committed to the database it was given, "error" when it
\* failed; the provider's witness computation is "ok" or "error".
SystemCallOutcomes == {"skipped", "applied", "error"}
SystemCalls ==
    [beacon_root : SystemCallOutcomes, blockhashes : SystemCallOutcomes,
     witness : {"ok", "error"}]
\* a chain on which neither fork is active and the provider computes witnesses
NoSystemCalls == [beacon_root |-> "skipped", blockhashes |-> "skipped", witness |-> "ok"]

\* the contract a system call writes to: the beacon roots contract
\* (EIP-4788), the history storage contract (EIP-2935)
SystemContract(call) ==
    IF call = "beacon_root" THEN "beacon_roots" ELSE "history_storage"
\* the execution of a system call: it loads its contract and writes to it
SystemCallResult(call) ==
    [pre |-> [a \in {SystemContract(call)} |-> 0],
     state |-> [a \in {SystemContract(call)} |-> 1]]

\* pre_block_beacon_root_contract_call / pre_block_blockhashes_contract_call
\* on `&mut db`, with `.map_err(|err| EthApiError::Internal(err.into()))?`
pre_block_contract_call(call, outcome, next, db, block_env, L) ==
    LET t == [ok |-> outcome # "error", err |-> "Internal"]
        execs == Append(L.execs, Event(CallTx(call), db, block_env, NoCtx, "system", t,
                                       outcome = "applied"))
    IN IF ~t.ok THEN Return(L, db, Error("Internal"), execs)
       ELSE Continue([L EXCEPT !.stage = next],
                     IF outcome = "applied" THEN Loaded(db, SystemCallResult(call)) ELSE db,
                     execs)

debug_execution_witness(body, block_id, include_preimages) ==
    LET env == evm_env_at(block_id)
        found == ok_or_header_not_found(block_by_id(body, block_id), block_id)
    IN IF ~env.ok THEN Done(env, TRUE, "none")
       ELSE IF ~found.ok THEN Done(found, TRUE, "none")
       ELSE LET block == found.val
            IN Spawned([at |-> block.parent_hash, txs |-> block.body,
                        block_env |-> env.val.block_env, block_hash |-> block.hash,
                        target |-> 0], TRUE, "none")

\* One unit of the closure of debug_execution_witness, all on the one
\* database built over the parent state: the beacon-root call, then the
\* blockhashes call, then `transact` and `db.commit(res.state)` for each
\* transaction of the block, then the walk over the accounts the cache holds
\* and the provider's witness over them. The `?` of every step returns its
\* error from the closure.
execution_witness_step(job, db, include_preimages, L) ==
    CASE L.stage = "beacon_root" ->
           pre_block_contract_call("beacon_root", system_calls.beacon_root, "blockhashes",
                                   db, job.block_env, L)
      [] L.stage = "blockhashes" ->
           pre_block_contract_call("blockhashes", system_calls.blockhashes, "transactions",
                                   db, job.block_env, L)
      [] L.stage = "transactions" /\ L.i <= Len(job.txs) ->
           LET tx == job.txs[L.i]
               r == Execute(View(db), tx)
               execs == Append(L.execs, Event(tx, db, job.block_env, NoCtx, "replay",
                                              Transact(r), TRUE))
           IN IF ~r.ok THEN Return(L, db, Error("Internal"), execs)
              ELSE Continue([L EXCEPT !.i = L.i + 1], Loaded(db, r), execs)
      [] OTHER ->
           LET accounts == DOMAIN db.cache
               some == {x \in accounts : account_is_some(db, x)}
               \* hashed_state.accounts, hashed_state.storages
               hashed_state == {keccak256(address_bytes(a)) : a \in accounts}
               hashed_storages ==
                   UNION {{<<keccak256(address_bytes(a)), keccak256(slot_bytes(slot))>> :
                              slot \in account_storage(db, a)} : a \in some}
               state_preimages ==
                   IF include_preimages
                   THEN {preimage_entry(a) : a \in some}
                        \cup UNION {{slot_preimage_entry(slot) :
                                        slot \in account_storage(db, a)} : a \in some}
                   ELSE {}
               keys == then_some(include_preimages, state_preimages)
               \* state_provider.witness(Default::default(), hashed_state)
               t == [ok |-> system_calls.witness = "ok", err |-> "Internal"]
               execs == Append(L.execs, Event(CallTx("witness"), db, job.block_env, NoCtx,
                                              "witness", t, FALSE))
           IN IF ~t.ok THEN Return(L, db, Error("Internal"), execs)
              ELSE Return(L, db, OkVal(<<[state |-> hashed_state, storages |-> hashed_storages,
                                          has_keys |-> keys.some, keys |-> keys.value]>>),
                          execs)

\* ---------------------------------------------------------- raw accessors

\* Encodable::encode on a header, a block; envelope_encoded on a transaction
\* and on a receipt with bloom
encode_header(h) == rlp_encode(<<"header", h>>)
encode_block(block) == rlp_encode(<<"block", block.hash>>)
tx_envelope_encoded(tx) == <<"tx", tx.hash>>
receipt_envelope_encoded(tx) == <<"receipt", tx.hash>>

\* provider.header(&hash): the header of a block of the database
provider_header(h) == IF h \in KnownHashes THEN Some(h) ELSE None
\* provider.header_by_number(number)
header_by_number(n) ==
    CASE n = 0 -> Some(GenesisHash)
      [] n = 1 -> Some(HeadHash)
      [] OTHER -> None
\* provider.convert_block_number(number_or_tag): the number a tag stands
\* for, None for the pending tag when there is no pending block
convert_block_number(id) ==
    CASE id.kind = "latest" -> Some(1)
      [] id.kind = "pending" ->
           IF pending_block THEN Some(PendingBlock.number) ELSE None
      [] OTHER -> Some(id.number)
\* provider.receipts_by_block_id: one receipt per transaction of the block
receipts_by_block_id(body, id) ==
    LET block == block_by_id(body, id)
    IN IF block.some THEN Some(block.value.body) ELSE None

\* `if let Some(header) = header { header.encode(&mut res) }`
encode_if_some(header) == IF header.some THEN encode_header(header.value) ELSE << >>

\* debug_getRawHeader
raw_header(block_id) ==
    IF block_id.kind = "hash" THEN OkVal(encode_if_some(provider_header(block_id.hash)))
    ELSE LET number == convert_block_number(block_id)
         IN IF ~number.some THEN Error("Internal")
            ELSE OkVal(encode_if_some(header_by_number(number.value)))

\* debug_getRawBlock
raw_block(body, block_id) ==
    LET block == block_by_id(body, block_id)
    IN IF ~block.some THEN HeaderNotFound(block_id) ELSE OkVal(encode_block(block.value))

\* (a list accessor that reported a missing block would be this one)
unwrap_or_not_found(opt) == IF opt.some THEN OkVal(opt.value) ELSE Error("Internal")
\* Option::unwrap_or_default on a block or a list of receipts
unwrap_or_default(opt) == IF opt.some THEN OkVal(opt.value) ELSE OkVal(<< >>)

\* debug_getRawTransactions
raw_transactions(body, block_id) ==
    LET found == block_by_id(body, block_id)
        txs == unwrap_or_default(IF found.some THEN Some(found.value.body) ELSE None)
    IN IF ~txs.ok THEN txs
       ELSE OkVal([i \in 1..Len(txs.val) |-> tx_envelope_encoded(txs.val[i])])

\* debug_getRawReceipts
raw_receipts(body, block_id) ==
    LET receipts == unwrap_or_default(receipts_by_block_id(body, block_id))
    IN IF ~receipts.ok THEN receipts
       ELSE OkVal([i \in 1..Len(receipts.val) |-> receipt_envelope_encoded(receipts.val[i])])

\* ------------------------------------------------------------ requests

Req == 1..NumReq

NoRaw == [decodes |-> FALSE, number |-> 0, parent_hash |-> NoHash, body |-> << >>]
DefaultOpts == [tracer |-> "default", cfgOk |-> TRUE]

\* the arguments of one call of a DebugApiServer handler
Args(method, id, raw, tx_hash, opts) ==
    [method |-> method, id |-> id, raw |-> raw, tx_hash |-> tx_hash, opts |-> opts,
     call |-> CallTx("none"), state_overrides |-> NoStateOverride,
     block_overrides |-> NoBlockOverride, bundles |-> << >>, transaction_index |-> AllTxs,
     include_preimages |-> FALSE]
NoArgs == Args("none", HashId(NoHash), NoRaw, NoHash, DefaultOpts)
TraceCallArgs(call, id, so, bo, opts) ==
    [Args("traceCall", id, NoRaw, NoHash, opts) EXCEPT
        !.call = call, !.state_overrides = so, !.block_overrides = bo]
TraceCallManyArgs(bundles, id, index, so, opts) ==
    [Args("traceCallMany", id, NoRaw, NoHash, opts) EXCEPT
        !.bundles = bundles, !.transaction_index = index, !.state_overrides = so]
WitnessArgs(id, include_preimages) ==
    [Args("executionWitness", id, NoRaw, NoHash, DefaultOpts) EXCEPT
        !.include_preimages = include_preimages]

\* the handler's body up to the point where it awaits its worker
Handler(body, a) ==
    CASE a.method = "traceBlock" -> debug_trace_raw_block(a.raw, a.opts)
      [] a.method \in {"traceBlockByHash", "traceBlockByNumber"} ->
           debug_trace_block(body, a.id, a.opts)
      [] a.method = "traceTransaction" -> debug_trace_transaction(body, a.tx_hash, a.opts)
      [] a.method = "traceCall" ->
           debug_trace_call(a.call, a.id, EvmOverrides(a.state_overrides, a.block_overrides),
                            a.opts)
      [] a.method = "traceCallMany" ->
           debug_trace_call_many(body, a.bundles, a.id, a.transaction_index, a.opts)
      [] OTHER -> debug_execution_witness(body, a.id, a.include_preimages)

\* The order in which the two lookups of a `futures::try_join!` are
\* answered: both before the handler is polled again, or one of them first,
\* with a poll of the handler between the two answers
JoinOrders == {"together", "evm_env_at", "block_with_senders"}

\* `futures::try_join!(evm_env_at(at), block_with_senders(..))`: the polls
\* of the join, each with the lookups answered in it; the join is complete
\* when both are answered, and an error of evm_env_at completes it without
\* the answer of the other lookup
try_join(at, order) ==
    CASE order = "block_with_senders" -> << <<"block_with_senders">>, <<"evm_env_at">> >>
      [] ~evm_env_at(at).ok -> << <<"evm_env_at">> >>
      [] order = "evm_env_at" -> << <<"evm_env_at">>, <<"block_with_senders">> >>
      [] OTHER -> << <<"evm_env_at", "block_with_senders">> >>

\* The polls of a handler from the one that takes the permit to the one
\* that spawns the closure or returns: poll 1 runs from the permit to the
\* first lookup the handler awaits, every later poll from the answer of an
\* awaited lookup to the next lookup that is not answered yet. Each poll is
\* listed with the lookups answered in it; `order` is the order in which
\* the lookups of a join are answered.
Polls(body, a, order) ==
    CASE a.method = "traceBlock" ->
           IF a.raw.decodes THEN << << >>, <<"evm_env_for_raw_block">> >> ELSE << << >> >>
      [] a.method \in {"traceBlockByHash", "traceBlockByNumber"} ->
           IF block_hash_for_id(a.id) = NoHash THEN << <<"block_hash_for_id">> >>
           ELSE << <<"block_hash_for_id">> >>
                \o try_join(HashId(block_hash_for_id(a.id)), order)
      [] a.method = "traceTransaction" ->
           IF IndexOf(body, a.tx_hash) = 0 THEN << << >>, <<"transaction_and_block">> >>
           ELSE << << >>, <<"transaction_and_block">>, <<"evm_env_at">> >>
      [] a.method = "traceCall" ->
           CASE \/ a.opts.tracer = "noop"
                \/ a.opts.tracer = "js" /\ ~JsTracerEnabled
                \/ a.opts.tracer \in ConfigTracers /\ ~parse_tracer_config(a.opts) ->
                  << << >> >>
             [] a.opts.tracer = "flatCall" /\ parse_tracer_config(a.opts) ->
                  << << >>, <<"transaction_and_block">> >>
             [] a.opts.tracer = "js" /\ JsTracerEnabled /\ evm_env_at(a.id).ok ->
                  << << >>, <<"evm_env_at">>, <<"evm_env_at">> >>
             [] OTHER -> << << >>, <<"evm_env_at">> >>
      [] a.method = "traceCallMany" ->
           IF bundles_is_empty(a.bundles) THEN << << >> >>
           ELSE << << >> >> \o try_join(a.id, order)
      [] OTHER -> << << >> >> \o try_join(a.id, order)

\* the lookups answered in the first n polls
RECURSIVE LookupsUpTo(_, _)
LookupsUpTo(polls, n) == IF n = 0 THEN << >> ELSE LookupsUpTo(polls, n - 1) \o polls[n]

\* The locals of a closure the handler has spawned and no thread of the
\* pool has started: the cache of its database, the positions of its loops,
\* the environment and the state override it carries, the results it has
\* collected, its trail and, once it has returned, what it returned.
Spawn ==
    [stage |-> "spawned", cache |-> EmptyDelta, i |-> 1, b |-> 1, j |-> 1,
     block_env |-> BlockEnv(0), so |-> NoStateOverride, results |-> << >>, all |-> << >>,
     execs |-> << >>, out |-> WorkerOut(NoResult, FALSE, << >>)]

\* spawn_with_state_at_block / spawn_with_call_at on a thread of the pool:
\* the state view at the job's block is acquired and the closure is entered
\* with a database of its own over it; without a state there the request
\* fails and the closure is never entered
closure_start(st, a, job, L) ==
    LET sv == StateAtBlock(st, job.at)
    IN IF ~sv.ok
       THEN [L EXCEPT !.stage = "returned", !.out = WorkerOut(Error("Internal"), FALSE, << >>)]
       ELSE [L EXCEPT !.stage = IF a.method = "executionWitness" THEN "beacon_root"
                                ELSE "entered",
                      !.cache = CacheDB(sv.state).cache,
                      !.block_env = job.block_env,
                      !.so = a.state_overrides]

\* One unit of the closure of a request with arguments `a`, on the closure's
\* database db with the locals L
closure_unit(job, a, db, L) ==
    CASE a.method \in {"traceBlock", "traceBlockByHash", "traceBlockByNumber"} ->
           trace_block_step(job.txs, db, job.at, job.block_env, a.opts, L)
      [] a.method = "traceTransaction" -> trace_transaction_step(job, db, a.opts, L)
      [] a.method = "traceCall" ->
           trace_call_step(job, db, a.call,
                           EvmOverrides(a.state_overrides, a.block_overrides), a.opts, L)
      [] a.method = "traceCallMany" -> trace_call_many_step(job, db, a.bundles, a.opts, L)
      [] OTHER -> execution_witness_step(job, db, a.include_preimages, L)

\* the locals after a unit, and the states the provider holds after it: the
\* provider's state at the closure's block is what the unit's database
\* operations left in the layer under the cache
after_unit(st, at, unit) ==
    [local |-> unit.local, store |-> [st EXCEPT ![at] = unit.base]]

\* One step of the closure of the job of a request with arguments `a` whose
\* locals are L, run while the provider holds the states `st`: the start of
\* the closure, or one unit of it on its database over the provider's state
closure_on(st, job, a, L) ==
    IF L.stage = "spawned" THEN [local |-> closure_start(st, a, job, L), store |-> st]
    ELSE after_unit(st, job.at, closure_unit(job, a, Overlay(st[job.at], L.cache), L))

\* one step of the closure of the request with arguments `a` on the chain
\* whose head block has the body `body`
closure_step(st, body, a, L) == closure_on(st, Handler(body, a).job, a, L)

\* the closure run from the locals L until it returns, no other closure
\* running in between: what it returns
RECURSIVE run(_, _, _, _)
run(st, body, a, L) ==
    IF L.stage = "returned" THEN L.out
    ELSE LET s == closure_step(st, body, a, L) IN run(s.store, body, a, s.local)

\* what the closure of a request returns when it runs alone on the
\* provider's states `st`
Worker(st, body, a) == run(st, body, a, Spawn)

\* the body of a raw accessor: it awaits nothing but the provider
Accessor(body, a) ==
    CASE a.method = "getRawHeader" -> raw_header(a.id)
      [] a.method = "getRawBlock" -> raw_block(body, a.id)
      [] a.method = "getRawTransactions" -> raw_transactions(body, a.id)
      [] OTHER -> raw_receipts(body, a.id)

NoWorkerOut == Spawn.out
Unresolved == [env |-> FALSE, recovery |-> "none", spawn |-> FALSE, polls |-> 0,
               lookups |-> << >>]

\* no request yet, and a semaphore of `capacity` permits
InitWith(capacity) ==
    /\ js_tracer \in BOOLEAN
    /\ pending_block \in BOOLEAN
    /\ permits = capacity
    /\ waiters = << >>
    /\ closed = FALSE
    /\ pc = [r \in Req |-> "idle"]
    /\ permit = [r \in Req |-> "none"]
    /\ args = [r \in Req |-> NoArgs]
    /\ worker = [r \in Req |-> "none"]
    /\ wout = [r \in Req |-> NoWorkerOut]
    /\ local = [r \in Req |-> Spawn]
    /\ resolved = [r \in Req |-> Unresolved]
    /\ result = [r \in Req |-> NoResult]

InitRequests ==
    /\ system_calls = NoSystemCalls
    /\ InitWith(PermitCapacity)

\* a handler is called with arguments drawn from `inputs`
Call(r, inputs) ==
    /\ pc[r] = "idle"
    /\ \E a \in inputs : args' = [args EXCEPT ![r] = a]
    /\ pc' = [pc EXCEPT ![r] = "acquire"]
    /\ UNCHANGED <<js_tracer, pending_block, system_calls, chain, store, permits, waiters, closed, permit, worker, wout, local, resolved, result>>

\* a raw accessor is called with arguments drawn from `inputs` and returns:
\* it takes no permit and spawns nothing
RawAccess(r, inputs) ==
    /\ pc[r] = "idle"
    /\ \E a \in inputs :
          /\ args' = [args EXCEPT ![r] = a]
          /\ result' = [result EXCEPT ![r] = Accessor(chain, a)]
    /\ pc' = [pc EXCEPT ![r] = "done"]
    /\ UNCHANGED <<js_tracer, pending_block, system_calls, chain, store, permits, waiters, closed, permit, worker, wout, local, resolved>>

\* (a permit that was forgotten instead of dropped would leave the semaphore
\* as PermitsAfterDropLeaked)
PermitsAfterDropLeaked(count, queue) == [permits |-> count, waiters |-> queue, to |-> 0]
\* The drop of an OwnedSemaphorePermit on a semaphore with `count` permits
\* available and the requests `queue` waiting: the permit is handed to the
\* first request of the queue, which leaves the queue, and is available
\* again only when no request waits. `to` is the request it was handed to.
PermitsAfterDrop(count, queue) ==
    IF queue = << >> THEN [permits |-> count + 1, waiters |-> queue, to |-> 0]
    ELSE [permits |-> count, waiters |-> Tail(queue), to |-> Head(queue)]

\* `_permit` of request r goes out of scope, or the future of r is dropped,
\* on a semaphore with `count` permits available and the requests `queue`
\* waiting: a permit that r holds (`holds`) is dropped; `binding` is what is
\* left of r's `_permit`
DropPermit(r, holds, binding, count, queue) ==
    LET s == IF holds THEN PermitsAfterDrop(count, queue)
             ELSE [permits |-> count, waiters |-> queue, to |-> 0]
    IN /\ permits' = s.permits
       /\ waiters' = s.waiters
       /\ permit' = [q \in Req |-> IF q = r THEN binding
                                   ELSE IF q = s.to THEN "assigned" ELSE permit[q]]

\* Poll n of the handler of request r, with the lookups answered in the
\* order `order`. `taken` permits were taken from the available ones in
\* this poll (-1: one was given back) and `_permit` is bound to `binding`.
\* The handler runs to its next awaited lookup and returns to the executor
\* there, holding its binding; in its last poll it returns early with a
\* result (and `_permit` goes out of scope), or it spawns its closure and
\* awaits it.
HandlerPoll(r, n, order, binding, taken) ==
    LET h == Handler(chain, args[r])
        polls == Polls(chain, args[r], order)
        lookups == LookupsUpTo(polls, n)
        at == [Unresolved EXCEPT
                  !.polls = n, !.lookups = lookups,
                  !.env = \E i \in 1..Len(lookups) : lookups[i] = "evm_env_at"]
    IN /\ n <= Len(polls)
       /\ LookupsUpTo(polls, n - 1) = resolved[r].lookups
       /\ IF n < Len(polls)
          THEN /\ resolved' = [resolved EXCEPT ![r] = at]
               /\ pc' = [pc EXCEPT ![r] = "resolve"]
               /\ permits' = permits - taken
               /\ permit' = [permit EXCEPT ![r] = binding]
               /\ UNCHANGED <<waiters, worker, result>>
          ELSE /\ resolved' = [resolved EXCEPT ![r] =
                                  [at EXCEPT !.env = h.env, !.recovery = h.recovery,
                                             !.spawn = h.spawn]]
               /\ IF h.spawn
                  THEN /\ worker' = [worker EXCEPT ![r] = "running"]
                       /\ pc' = [pc EXCEPT ![r] = "await"]
                       /\ permits' = permits - taken
                       /\ permit' = [permit EXCEPT ![r] = binding]
                       /\ UNCHANGED <<waiters, result>>
                  ELSE /\ result' = [result EXCEPT ![r] = h.res]
                       /\ pc' = [pc EXCEPT ![r] = "done"]
                       /\ DropPermit(r, binding = "held",
                                     IF binding = "held" THEN "released" ELSE binding,
                                     permits - taken, waiters)
                       /\ UNCHANGED worker

\* acquire_trace_permit: `blocking_task_guard.clone().acquire_owned().await`
\* polled while the semaphore is open and no permit is available: the
\* request joins the queue of the semaphore and the handler stays pending.
\* A step of the specifications in which requests compete for a permit; where
\* the semaphore has a permit for every request, or one request runs alone,
\* no poll finds the semaphore empty.
AcquirePending(r) ==
    /\ pc[r] = "acquire"
    /\ ~closed
    /\ permits = 0
    /\ permit[r] = "none"
    /\ \A i \in 1..Len(waiters) : waiters[i] # r
    /\ waiters' = Append(waiters, r)
    /\ UNCHANGED <<js_tracer, pending_block, system_calls, chain, store, permits, closed, pc, permit, args, worker, wout, local, resolved, result>>

\* acquire_trace_permit yields Ok(permit) when the semaphore is open and a
\* permit is available, or one was handed to the request while it waited;
\* the handler runs on in the same poll
AcquireOk(r) ==
    /\ pc[r] = "acquire"
    /\ ~closed
    /\ (IF permit[r] = "assigned" THEN 1 ELSE permits) > 0
    /\ HandlerPoll(r, 1, "together", "held", IF permit[r] = "assigned" THEN 0 ELSE 1)
    /\ UNCHANGED <<js_tracer, pending_block, system_calls, chain, store, closed, args, wout, local>>

\* acquire_trace_permit on a closed semaphore yields Err(AcquireError), also
\* to a request that was handed a permit while it waited, whose permit goes
\* back to the semaphore; the handler binds the error to `_permit` and goes
\* on
AcquireErr(r) ==
    /\ pc[r] = "acquire"
    /\ closed
    /\ HandlerPoll(r, 1, "together", "failed", IF permit[r] = "assigned" THEN -1 ELSE 0)
    /\ UNCHANGED <<js_tracer, pending_block, system_calls, chain, store, closed, args, wout, local>>

\* The methods of DebugApi the server handlers call (debug_trace_block,
\* debug_trace_transaction, ..) are public and take no permit: a caller
\* inside the node calls one with arguments drawn from `inputs`
CallDirect(r, inputs) ==
    /\ pc[r] = "idle"
    /\ \E a \in inputs : args' = [args EXCEPT ![r] = a]
    /\ pc' = [pc EXCEPT ![r] = "direct"]
    /\ UNCHANGED <<js_tracer, pending_block, system_calls, chain, store, permits, waiters, closed, permit, worker, wout, local, resolved, result>>

\* the future of a direct call is polled for the first time
PollDirect(r) ==
    /\ pc[r] = "direct"
    /\ HandlerPoll(r, 1, "together", "none", 0)
    /\ UNCHANGED <<js_tracer, pending_block, system_calls, chain, store, closed, args, wout, local>>

\* a lookup the handler awaits is answered and the handler is polled again;
\* of the lookups of a join either is answered first, or both are
Resolve(r) ==
    /\ pc[r] = "resolve"
    /\ \E order \in JoinOrders :
          HandlerPoll(r, resolved[r].polls + 1, order, permit[r], 0)
    /\ UNCHANGED <<js_tracer, pending_block, system_calls, chain, store, closed, args, wout, local>>

\* a thread of the blocking pool runs one unit of the closure, whether or
\* not its handler future still exists
WorkerStep(r) ==
    /\ worker[r] = "running"
    /\ local[r].stage # "returned"
    /\ \E s \in {closure_step(store, chain, args[r], local[r])} :
          /\ local' = [local EXCEPT ![r] = s.local]
          /\ store' = s.store
    /\ UNCHANGED <<js_tracer, pending_block, system_calls, chain, permits, waiters, closed, pc, permit, args, worker, wout, resolved, result>>

\* the closure has returned: its result is sent to whoever awaits it
WorkerFinish(r) ==
    /\ worker[r] = "running"
    /\ local[r].stage = "returned"
    /\ worker' = [worker EXCEPT ![r] = "finished"]
    /\ wout' = [wout EXCEPT ![r] = local[r].out]
    /\ UNCHANGED <<js_tracer, pending_block, system_calls, chain, store, permits, waiters, closed, pc, permit, args, local, resolved, result>>

\* the handler receives its worker's result and returns it
Complete(r) ==
    /\ pc[r] = "await"
    /\ worker[r] = "finished"
    /\ result' = [result EXCEPT ![r] = wout[r].res]
    /\ pc' = [pc EXCEPT ![r] = "done"]
    /\ DropPermit(r, permit[r] = "held", IF permit[r] = "held" THEN "released" ELSE permit[r],
                  permits, waiters)
    /\ UNCHANGED <<js_tracer, pending_block, system_calls, chain, store, closed, args, worker, wout, local, resolved>>

\* the async caller is dropped at an await point of the handler: the future
\* and its locals are dropped, a spawned closure is not preempted; a
\* request that waits in the semaphore leaves its queue, and a permit it
\* holds or was handed while it waited is dropped
Drop(r) ==
    /\ pc[r] \in {"acquire", "direct", "resolve", "await"}
    /\ pc' = [pc EXCEPT ![r] = "dropped"]
    /\ DropPermit(r, permit[r] \in {"held", "assigned"},
                  IF permit[r] \in {"held", "assigned"} THEN "released" ELSE permit[r],
                  permits, SelectSeq(waiters, LAMBDA q : q # r))
    /\ UNCHANGED <<js_tracer, pending_block, system_calls, chain, store, closed, args, worker, wout, local, resolved, result>>

\* the admission gate is torn down (Semaphore::close): the requests that
\* wait are woken and leave the queue
CloseGate ==
    /\ ~closed
    /\ closed' = TRUE
    /\ waiters' = << >>
    /\ UNCHANGED <<js_tracer, pending_block, system_calls, chain, store, permits, pc, permit, args, worker, wout, local, resolved, result>>

\* ------------------------------------------------------- specifications

\* inputs of the handlers that trace sealed blocks and their transactions
CanonInputs ==
    {Args("traceBlockByHash", id, NoRaw, NoHash, o) : id \in HashIds, o \in Options}
    \cup {Args("traceBlockByNumber", id, NoRaw, NoHash, o) :
             id \in NumberIds \cup {PendingId}, o \in Options}
    \cup {Args("traceTransaction", HashId(NoHash), NoRaw, t.hash, o) :
             t \in RawTxs, o \in Options}

CallOps == {"inc", "copy", "revert", "invalid"}

CallInputs ==
    {TraceCallArgs(CallTx(op), id, so, bo, o) :
        op \in CallOps,
        id \in {LatestId, PendingId, HashId(GenesisHash), HashId(UnknownHash)},
        so \in {NoStateOverride, StateOverride(2)},
        bo \in {NoBlockOverride, BlockOverride(7)}, o \in Options}

WitnessInputs == {WitnessArgs(id, inc) : id \in NumberIds, inc \in BOOLEAN}

\* the requests of one client: traces of canonical blocks and transactions,
\* synthetic calls, execution witnesses
ClientInputs == CanonInputs \cup CallInputs \cup WitnessInputs

\* one request on any canonical chain
Init ==
    /\ chain \in CanonBodies
    /\ store = ChainState(chain)
    /\ InitRequests

Next ==
    \/ Call(1, ClientInputs)
    \/ AcquireOk(1)
    \/ Resolve(1)
    \/ WorkerStep(1)
    \/ WorkerFinish(1)
    \/ Complete(1)
    \/ Drop(1)

Spec == Init /\ [][Next]_vars

\* one block trace request: debug_traceBlock with a caller-supplied block, or
\* debug_traceBlockByHash / ByNumber on a fixed chain
RawInputs ==
    {Args("traceBlock", HashId(NoHash), raw, NoHash, o) :
        raw \in {b \in RawBlocks : b.decodes \/ (b = [NoRaw EXCEPT !.number = b.number,
                                                                   !.parent_hash = b.parent_hash])},
        o \in Options}

BlockInputs == RawInputs \cup {a \in CanonInputs : a.method # "traceTransaction"}

InitRaw ==
    /\ chain = <<TxInc, TxCopy, TxRevert>>
    /\ store = ChainState(chain)
    /\ InitRequests

NextRaw ==
    \/ Call(1, BlockInputs)
    \/ AcquireOk(1)
    \/ Resolve(1)
    \/ WorkerStep(1)
    \/ WorkerFinish(1)
    \/ Complete(1)
    \/ Drop(1)

SpecRaw == InitRaw /\ [][NextRaw]_vars

\* one debug_traceCallMany request on any canonical chain
BundleLists ==
    {<< >>,
     <<Bundle(<<CallTx("inc")>>, NoBlockOverride)>>,
     <<Bundle(<<CallTx("inc"), CallTx("copy")>>, NoBlockOverride),
       Bundle(<<CallTx("copy")>>, BlockOverride(7))>>,
     <<Bundle(<< >>, NoBlockOverride), Bundle(<<CallTx("copy")>>, NoBlockOverride)>>,
     <<Bundle(<<CallTx("inc"), CallTx("copy")>>, BlockOverride(7)),
       Bundle(<<CallTx("inc")>>, NoBlockOverride)>>,
     <<Bundle(<<CallTx("revert"), CallTx("copy")>>, NoBlockOverride)>>,
     <<Bundle(<<CallTx("inc")>>, NoBlockOverride), Bundle(<< >>, BlockOverride(7)),
       Bundle(<<CallTx("inc"), CallTx("copy")>>, NoBlockOverride),
       Bundle(<<CallTx("invalid")>>, NoBlockOverride)>>}

CallManyInputs ==
    {TraceCallManyArgs(bs, id, index, so, o) :
        bs \in BundleLists,
        id \in {LatestId, PendingId, NumberId(0), HashId(HeadHash), HashId(UnknownHash)},
        index \in {AllTxs} \cup (0..MaxBody),
        so \in {NoStateOverride, StateOverride(2)}, o \in Options}

\* (the caller of this request stays: a cancelled debug_traceCallMany is a
\* step of SpecGate, and a closure runs the same whether or not its caller
\* is still there)
NextCallMany ==
    \/ Call(1, CallManyInputs)
    \/ AcquireOk(1)
    \/ Resolve(1)
    \/ WorkerStep(1)
    \/ WorkerFinish(1)
    \/ Complete(1)

SpecCallMany == Init /\ [][NextCallMany]_vars

\* a debug_traceTransaction request (1) and a debug_traceBlockByHash request
\* (2) with the same options, interleaved, on any canonical chain
PairInputs(r) ==
    LET other == args[3 - r]
        opts == IF other.method = "none" THEN Options ELSE {other.opts}
    IN IF r = 1
       THEN {Args("traceTransaction", HashId(NoHash), NoRaw, t.hash, o) :
                t \in CanonTxs, o \in opts}
       ELSE {Args("traceBlockByHash", HashId(HeadHash), NoRaw, NoHash, o) : o \in opts}

NextPair ==
    \E r \in {1, 2} :
        \/ Call(r, PairInputs(r))
        \/ AcquirePending(r)
        \/ AcquireOk(r)
        \/ Resolve(r)
        \/ WorkerStep(r)
        \/ WorkerFinish(r)
        \/ Complete(r)

SpecPair == Init /\ [][NextPair]_vars

\* NumReq concurrent requests of every tracing handler on one chain, with
\* callers that may be dropped and a gate that may be torn down
\* a direct call of one of the public methods
DirectInputs ==
    {Args("traceTransaction", HashId(NoHash), NoRaw, TxCopy.hash, DefaultOpts)}

GateInputs ==
    {Args("traceBlock", HashId(NoHash),
          [decodes |-> TRUE, number |-> HomesteadBlock, parent_hash |-> GenesisHash,
           body |-> <<TxInc>>], NoHash, DefaultOpts),
     Args("traceBlock", HashId(NoHash), NoRaw, NoHash, DefaultOpts),
     Args("traceBlockByHash", HashId(HeadHash), NoRaw, NoHash, DefaultOpts),
     Args("traceBlockByNumber", NumberId(2), NoRaw, NoHash, DefaultOpts),
     Args("traceTransaction", HashId(NoHash), NoRaw, TxCopy.hash, DefaultOpts),
     TraceCallArgs(CallTx("invalid"), LatestId, NoStateOverride, NoBlockOverride, DefaultOpts),
     TraceCallManyArgs(<<Bundle(<<CallTx("inc")>>, NoBlockOverride)>>, LatestId, AllTxs,
                       NoStateOverride, DefaultOpts),
     WitnessArgs(NumberId(1), TRUE)}

InitGate ==
    /\ InitRaw
    /\ ~js_tracer
    /\ pending_block

NextGate ==
    \/ \E r \in Req :
          \/ Call(r, GateInputs)
          \/ CallDirect(r, DirectInputs)
          \/ PollDirect(r)
          \/ AcquirePending(r)
          \/ AcquireOk(r)
          \/ AcquireErr(r)
          \/ Resolve(r)
          \/ WorkerStep(r)
          \/ WorkerFinish(r)
          \/ Complete(r)
          \/ Drop(r)
    \/ CloseGate

SpecGate == InitGate /\ [][NextGate]_vars

\* one request of any of the four tracing operations, with every tracer
\* selector and configuration, on any canonical chain
TracerManyInputs ==
    {TraceCallManyArgs(bs, id, AllTxs, NoStateOverride, o) :
        bs \in {<< >>,
                <<Bundle(<< >>, NoBlockOverride)>>,
                <<Bundle(<<CallTx("inc"), CallTx("copy")>>, NoBlockOverride)>>,
                <<Bundle(<< >>, NoBlockOverride), Bundle(<<CallTx("revert")>>, NoBlockOverride)>>},
        id \in {LatestId, HashId(UnknownHash)}, o \in Options}

TracerRawInputs ==
    {Args("traceBlock", HashId(NoHash),
          [decodes |-> TRUE, number |-> HomesteadBlock, parent_hash |-> p, body |-> b],
          NoHash, o) :
        p \in {GenesisHash, UnknownHash},
        b \in {<< >>, <<TxInc, TxCopy>>, <<TxRevert, TxInvalid>>, <<TxBadSig>>},
        o \in Options}

TracerInputs == CanonInputs \cup TracerRawInputs \cup CallInputs \cup TracerManyInputs

NextTracers ==
    \/ Call(1, TracerInputs)
    \/ AcquireOk(1)
    \/ Resolve(1)
    \/ WorkerStep(1)
    \/ WorkerFinish(1)
    \/ Complete(1)
    \/ Drop(1)

SpecTracers == Init /\ [][NextTracers]_vars

\* NumReq concurrent requests that select the Noop tracer: synthetic calls on
\* a block and on a block id that resolves to nothing, block traces and
\* bundles with transactions the EVM would reject
NoopOpts == [tracer |-> "noop", cfgOk |-> TRUE]
NoopInputs ==
    {TraceCallArgs(CallTx(op), id, so, bo, NoopOpts) :
        op \in {"inc", "invalid"}, id \in {LatestId, HashId(UnknownHash)},
        so \in {NoStateOverride, StateOverride(2)},
        bo \in {NoBlockOverride, BlockOverride(7)}}
    \cup {Args("traceBlock", HashId(NoHash),
               [decodes |-> TRUE, number |-> HomesteadBlock, parent_hash |-> GenesisHash,
                body |-> b], NoHash, NoopOpts) :
             b \in {<<TxInc, TxCopy>>, <<TxRevert, TxInvalid>>}}
    \cup {Args("traceBlockByHash", HashId(HeadHash), NoRaw, NoHash, NoopOpts)}
    \cup {TraceCallManyArgs(<<Bundle(<<CallTx("inc"), CallTx("copy")>>, NoBlockOverride),
                               Bundle(<<CallTx("invalid")>>, NoBlockOverride)>>,
                             LatestId, index, so, NoopOpts) :
             index \in {AllTxs, 1}, so \in {NoStateOverride, StateOverride(2)}}

NextNoop ==
    \E r \in Req :
        \/ Call(r, NoopInputs)
        \/ AcquireOk(r)
        \/ Resolve(r)
        \/ WorkerStep(r)
        \/ WorkerFinish(r)
        \/ Complete(r)

SpecNoop == InitRaw /\ [][NextNoop]_vars

\* NumReq concurrent requests on one chain: calls with state and block
\* overrides next to calls and traces that carry none
IsoInputs ==
    {TraceCallArgs(CallTx("inc"), LatestId, StateOverride(2), BlockOverride(7), DefaultOpts),
     TraceCallArgs(CallTx("copy"), LatestId, StateOverride(0), NoBlockOverride, DefaultOpts),
     TraceCallArgs(CallTx("inc"), HashId(GenesisHash), StateOverride(2), NoBlockOverride,
                   DefaultOpts),
     TraceCallArgs(CallTx("copy"), LatestId, NoStateOverride, NoBlockOverride, DefaultOpts),
     TraceCallArgs(CallTx("copy"), HashId(GenesisHash), NoStateOverride, NoBlockOverride,
                   DefaultOpts),
     TraceCallManyArgs(<<Bundle(<<CallTx("inc"), CallTx("copy")>>, NoBlockOverride),
                         Bundle(<<CallTx("copy")>>, BlockOverride(7))>>,
                       LatestId, AllTxs, StateOverride(0), DefaultOpts),
     TraceCallManyArgs(<<Bundle(<<CallTx("copy")>>, NoBlockOverride)>>, NumberId(0), AllTxs,
                       NoStateOverride, DefaultOpts),
     Args("traceBlockByHash", HashId(HeadHash), NoRaw, NoHash, DefaultOpts)}

\* a semaphore configured to admit every request at once: the closures of
\* all requests run side by side on the pool
ConcurrentPermits == NumReq

InitIso ==
    /\ chain = <<TxInc, TxCopy, TxRevert>>
    /\ store = ChainState(chain)
    /\ system_calls = NoSystemCalls
    /\ InitWith(ConcurrentPermits)
    /\ ~js_tracer
    /\ pending_block

NextIso ==
    \E r \in Req :
        \/ Call(r, IsoInputs)
        \/ AcquireOk(r)
        \/ Resolve(r)
        \/ WorkerStep(r)
        \/ WorkerFinish(r)
        \/ Complete(r)
        \/ Drop(r)

SpecIso == InitIso /\ [][NextIso]_vars

\* NumReq concurrent requests: raw accessors with every form of block id,
\* next to block traces that hold the permits
AccessMethods == {"getRawHeader", "getRawBlock", "getRawTransactions", "getRawReceipts"}
AccessInputs ==
    {Args(m, id, NoRaw, NoHash, DefaultOpts) :
        m \in AccessMethods, id \in BlockIds \cup {PendingId}}
AccessTraceInputs == {Args("traceBlockByHash", HashId(HeadHash), NoRaw, NoHash, DefaultOpts)}

InitAccess ==
    /\ InitRaw
    /\ ~js_tracer

NextAccess ==
    \E r \in Req :
        \/ RawAccess(r, AccessInputs)
        \/ Call(r, AccessTraceInputs)
        \/ AcquirePending(r)
        \/ AcquireOk(r)
        \/ Resolve(r)
        \/ WorkerStep(r)
        \/ WorkerFinish(r)
        \/ Complete(r)

SpecAccess == InitAccess /\ [][NextAccess]_vars

\* one request of a handler that resolves a block selector or a transaction
\* hash, with selectors that resolve and selectors that do not, on any
\* canonical chain
ResolveInputs ==
    {a \in CanonInputs : a.opts = DefaultOpts}
    \cup WitnessInputs
    \cup {WitnessArgs(PendingId, FALSE)}
    \cup {TraceCallManyArgs(bs, id, AllTxs, NoStateOverride, DefaultOpts) :
             bs \in {<< >>, <<Bundle(<<CallTx("inc")>>, NoBlockOverride)>>},
             id \in {LatestId, PendingId, HashId(UnknownHash), NumberId(2)}}

NextResolve ==
    \/ Call(1, ResolveInputs)
    \/ AcquireOk(1)
    \/ Resolve(1)
    \/ WorkerStep(1)
    \/ WorkerFinish(1)
    \/ Complete(1)
    \/ Drop(1)

SpecResolve == Init /\ [][NextResolve]_vars

\* NumReq concurrent requests on one chain: block traces of the head block
\* with several tracers, next to a call that overrides state
RepeatOptions ==
    {DefaultOpts, [tracer |-> "call", cfgOk |-> TRUE], [tracer |-> "prestate", cfgOk |-> FALSE],
     [tracer |-> "noop", cfgOk |-> TRUE], [tracer |-> "js", cfgOk |-> TRUE]}
RepeatInputs ==
    {Args("traceBlockByHash", HashId(HeadHash), NoRaw, NoHash, o) : o \in RepeatOptions}
    \cup {Args("traceBlockByNumber", NumberId(1), NoRaw, NoHash, DefaultOpts),
           TraceCallArgs(CallTx("inc"), LatestId, StateOverride(2), BlockOverride(7),
                         DefaultOpts)}

InitRepeat ==
    /\ chain = <<TxInc, TxCopy, TxRevert>>
    /\ store = ChainState(chain)
    /\ system_calls = NoSystemCalls
    /\ InitWith(ConcurrentPermits)

NextRepeat ==
    \E r \in Req :
        \/ Call(r, RepeatInputs)
        \/ AcquireOk(r)
        \/ Resolve(r)
        \/ WorkerStep(r)
        \/ WorkerFinish(r)
        \/ Complete(r)
        \/ Drop(r)

SpecRepeat == InitRepeat /\ [][NextRepeat]_vars

\* one debug_executionWitness request on a chain whose head block may hold
\* a transaction whose re-execution fails
WitnessBodies == {s \in SeqsUpTo(CanonTxs \cup {TxInvalid}, MaxBody) : Injective(s)}

\* on any chain, whatever the pre-block system calls and the provider's
\* witness computation do there
InitWitness ==
    /\ chain \in WitnessBodies
    /\ store = ChainState(chain)
    /\ system_calls \in SystemCalls
    /\ InitWith(PermitCapacity)

NextWitness ==
    \/ Call(1, WitnessInputs)
    \/ AcquireOk(1)
    \/ Resolve(1)
    \/ WorkerStep(1)
    \/ WorkerFinish(1)
    \/ Complete(1)
    \/ Drop(1)

SpecWitness == InitWitness /\ [][NextWitness]_vars

\* ------------------------------------------------------------------ claims

IsBlockTrace(a) == a.method \in {"traceBlock", "traceBlockByHash", "traceBlockByNumber"}
Running == {r \in Req : worker[r] = "running"}
Holding == {r \in Req : permit[r] = "held"}

\* C1 (as claimed): at most PermitCapacity traces execute on the worker pool at
\* any time, whatever the interleaving, also with dropped callers and a
\* closed semaphore.
C1_PermitBound == Cardinality(Running) <= PermitCapacity

\* C2 (as claimed): a request whose worker closure is still running still
\* holds its permit.
C2_PermitHeldWhileWorkerRuns == \A r \in Req : worker[r] = "running" => permit[r] = "held"

\* requests whose pending acquire_owned was handed a permit
Assigned == {r \in Req : permit[r] = "assigned"}

\* C3: no permit is leaked. The available permits, the permits held by
\* handler futures and the permits handed to waiting requests always add up
\* to the capacity; a permit is handed only to a request that waits, and no
\* permit is available while a request is queued; a request that has ended
\* (returned or cancelled, before or after acquisition) holds none, so once
\* every request has ended all permits are available again; a caller that
\* was cancelled while waiting took none, or gave back the one it was handed.
C3_NoPermitLeak ==
    /\ permits + Cardinality(Holding) + Cardinality(Assigned) = PermitCapacity
    /\ \A r \in Req : pc[r] \in {"idle", "acquire", "done", "dropped"} => permit[r] # "held"
    /\ \A r \in Assigned : pc[r] = "acquire"
    /\ \A i \in 1..Len(waiters) : pc[waiters[i]] = "acquire" /\ permit[waiters[i]] = "none"
    /\ waiters # << >> => permits = 0
    /\ (\A r \in Req : pc[r] \in {"idle", "done", "dropped"}) => permits = PermitCapacity

\* every request has ended, one of them cancelled after it acquired its
\* permit and one returned an error, and the permits are back
C3_Witness ==
    /\ \A r \in Req : pc[r] \in {"done", "dropped"}
    /\ \E r \in Req : pc[r] = "dropped" /\ permit[r] = "released"
    /\ \E r \in Req : pc[r] = "done" /\ permit[r] = "released" /\ ~result[r].ok
    /\ permits = PermitCapacity

\* C4 (as claimed): a handler whose permit acquisition failed on a closed
\* semaphore returns an Internal error and resolves no environment, acquires
\* no state and executes nothing.
C4_ClosedGateIsInternal ==
    \A r \in Req :
        permit[r] = "failed" =>
            /\ ~resolved[r].env
            /\ worker[r] = "none"
            /\ pc[r] = "done" => (~result[r].ok /\ result[r].err = "Internal")

\* the transactions a block trace request replays and the block it replays
\* them on top of, read off the request's arguments
TracedTxs(a) ==
    IF a.method = "traceBlock" THEN a.raw.body
    ELSE BlockByHash(chain, block_hash_for_id(a.id)).body
ParentHash(a) ==
    IF a.method = "traceBlock" THEN a.raw.parent_hash
    ELSE BlockByHash(chain, block_hash_for_id(a.id)).parent_hash
ParentState(a) == StateAtBlock(store, ParentHash(a)).state
\* block trace requests whose closure ran on an acquired parent state
Replayed == {r \in Req : IsBlockTrace(args[r]) /\ worker[r] = "finished" /\ wout[r].state}

\* C5 (as claimed): in a block trace, for every tracer selector and every
\* index i, the overlay state tx_i is traced against equals the parent-block
\* state with the deltas of tx_1..tx_{i-1} applied in body order.
C5_ReplayKernelEveryTracer ==
    \A r \in Replayed :
        \A i \in 1..Len(wout[r].execs) :
            /\ wout[r].execs[i].tx = TracedTxs(args[r])[i].hash
            /\ wout[r].execs[i].visible = StateAfter(ParentState(args[r]), TracedTxs(args[r]), i - 1)

\* C5 (amended): the replay kernel contract holds for every tracer selector
\* other than Noop: tx_i is traced against the parent-block state with the
\* deltas of tx_1..tx_{i-1} applied in body order. Under the Noop selector no
\* transaction is executed and every tx_i is handled on the unchanged parent
\* state.
C5_ReplayKernel ==
    \A r \in Replayed :
        \A i \in 1..Len(wout[r].execs) :
            /\ wout[r].execs[i].tx = TracedTxs(args[r])[i].hash
            /\ wout[r].execs[i].visible =
                  IF args[r].opts.tracer = "noop" THEN ParentState(args[r])
                  ELSE StateAfter(ParentState(args[r]), TracedTxs(args[r]), i - 1)

\* a block trace with an executing tracer has traced three transactions, the
\* third on a state that differs from the parent state and from the state
\* the second one saw
C5_Witness ==
    \E r \in Replayed :
        /\ args[r].opts.tracer # "noop"
        /\ Len(wout[r].execs) = 3
        /\ wout[r].execs[3].visible # ParentState(args[r])
        /\ wout[r].execs[3].visible # wout[r].execs[2].visible
        /\ wout[r].res.ok

\* the trace of a transaction of the head block (request 1) and the block
\* trace of the head block (request 2), with the same options, have both
\* returned
PairDone ==
    /\ pc[1] = "done" /\ args[1].method = "traceTransaction"
    /\ pc[2] = "done" /\ args[2].method = "traceBlockByHash"
    /\ args[1].opts = args[2].opts
    /\ IndexOf(chain, args[1].tx_hash) > 0

\* C6 (as claimed): debug_trace_transaction(tx_k) returns the same tracer
\* output as the k-th element of the block trace of its block with the same
\* options (and fails when the block trace fails, with the same error).
C6_PrefixEquivalence ==
    PairDone =>
        LET k == IndexOf(chain, args[1].tx_hash)
        IN /\ result[1].ok = result[2].ok
           /\ result[1].err = result[2].err
           /\ result[1].ok => result[1].val[1] = result[2].val[k].result

\* C7: a block trace emits no partial result. When tracing a transaction
\* returns an error the closure returns exactly that error and no result
\* list, and so does the request; when no transaction errors, the result
\* holds a success entry per transaction; a transaction that reverts is no
\* EVM error and, traced without error, yields a success entry.
C7_NoPartialBlockTrace ==
    \A r \in Replayed :
        LET execs == wout[r].execs
            n == Len(execs)
            failed == {i \in 1..n : ~execs[i].ok}
        IN /\ failed # {} =>
                /\ failed = {n}
                /\ wout[r].res = [ok |-> FALSE, err |-> execs[n].err, val |-> << >>]
           /\ failed = {} =>
                /\ wout[r].res.ok
                /\ Len(wout[r].res.val) = Len(TracedTxs(args[r]))
                /\ \A i \in 1..n : wout[r].res.val[i].success
           /\ \A i \in 1..n : execs[i].op = "revert" => execs[i].err # "Internal"
           /\ pc[r] = "done" => result[r] = wout[r].res

\* a block trace has returned an error raised by its second transaction,
\* after a first transaction that reverted and was traced successfully
C7_Witness ==
    \E r \in Replayed :
        /\ pc[r] = "done"
        /\ Len(wout[r].execs) = 2
        /\ wout[r].execs[1].op = "revert" /\ wout[r].execs[1].ok
        /\ ~wout[r].execs[2].ok
        /\ ~result[r].ok /\ result[r].val = << >>

\* block trace requests that reach trace_block with an empty transaction list
EmptyTrace ==
    {r \in Req : /\ IsBlockTrace(args[r])
                 /\ IF args[r].method = "traceBlock" THEN args[r].raw.decodes
                    ELSE block_hash_for_id(args[r].id) # NoHash
                 /\ TracedTxs(args[r]) = << >>}

\* C8: a block trace over an empty transaction list returns the empty list
\* and spawns no closure, so no parent-state view is acquired, whatever the
\* options.
C8_EmptyBlockTrace ==
    \A r \in EmptyTrace :
        /\ worker[r] = "none"
        /\ ~wout[r].state
        /\ ~resolved[r].spawn
        /\ pc[r] = "done" => result[r] = [ok |-> TRUE, err |-> "", val |-> << >>]

\* a trace of an empty raw block on an unknown parent, with a tracer that is
\* unsupported on this path, has returned the empty list
C8_Witness ==
    \E r \in EmptyTrace :
        /\ pc[r] = "done"
        /\ args[r].method = "traceBlock"
        /\ args[r].raw.parent_hash = UnknownHash
        /\ args[r].opts.tracer = "flatCall"
        /\ result[r].ok /\ result[r].val = << >>

\* the recovery rule of the fork schedule: strict from Homestead on, relaxed
\* before
SignerRecovers(number, tx) ==
    IF number >= HomesteadBlock THEN tx.sig = "ok" ELSE tx.sig \in {"ok", "highS"}
\* debug_traceBlock requests whose block decoded and that ran past recovery
RawResolved ==
    {r \in Req : /\ args[r].method = "traceBlock" /\ args[r].raw.decodes
                 /\ pc[r] \in {"await", "done"}}

\* C9: debug_trace_raw_block recovers signers with the strict rule when
\* Homestead is active at the block's number and with the relaxed rule
\* otherwise; when one transaction fails recovery the request fails with
\* InvalidTransactionSignature, no closure is spawned, no state view is
\* acquired and nothing is executed; when all recover, the request does not
\* fail with that error.
C9_RawBlockRecovery ==
    \A r \in RawResolved :
        LET raw == args[r].raw
            fails == \E i \in 1..Len(raw.body) : ~SignerRecovers(raw.number, raw.body[i])
        IN IF fails
           THEN /\ resolved[r].recovery = "failed"
                /\ worker[r] = "none" /\ ~wout[r].state /\ wout[r].execs = << >>
                /\ pc[r] = "done"
                /\ result[r] = [ok |-> FALSE, err |-> "InvalidTransactionSignature", val |-> << >>]
           ELSE /\ resolved[r].recovery = "ok"
                /\ result[r].err # "InvalidTransactionSignature"

\* a raw block at a Homestead number whose last transaction has a high-s
\* signature, after transactions that recover, was rejected
C9_Witness ==
    \E r \in RawResolved :
        /\ args[r].raw.number >= HomesteadBlock
        /\ Len(args[r].raw.body) >= 2
        /\ args[r].raw.body[1].sig = "ok"
        /\ args[r].raw.body[Len(args[r].raw.body)].sig = "highS"
        /\ result[r].err = "InvalidTransactionSignature"
        /\ worker[r] = "none"

\* debug_traceCallMany requests with an empty bundle list
EmptyBundles == {r \in Req : args[r].method = "traceCallMany" /\ args[r].bundles = << >>}

\* C10: debug_trace_call_many with an empty bundle list returns
\* InvalidParams("bundles are empty.") for every block id (also one that
\* resolves to no block), state override and options value, without
\* resolving the environment and without spawning a closure or acquiring a
\* state view.
C10_EmptyBundles ==
    \A r \in EmptyBundles :
        /\ ~resolved[r].env
        /\ ~resolved[r].spawn
        /\ worker[r] = "none" /\ ~wout[r].state
        /\ pc[r] = "done" =>
              result[r] = [ok |-> FALSE, err |-> "InvalidParams: bundles are empty.", val |-> << >>]

\* a call with no bundles on a block id that resolves to no block, with state
\* overrides and a tracer whose configuration does not parse, has returned
C10_Witness ==
    \E r \in EmptyBundles :
        /\ pc[r] = "done"
        /\ args[r].id = HashId(UnknownHash)
        /\ args[r].state_overrides.some
        /\ ~args[r].opts.cfgOk
        /\ result[r].err = "InvalidParams: bundles are empty."

\* debug_traceCallMany requests whose closure has returned
ManyFinished == {r \in Req : args[r].method = "traceCallMany" /\ worker[r] = "finished"}
\* the block a request's block id selects
TargetBlock(a) == BlockByHash(chain, block_hash_for_id(a.id))
\* the block transactions a closure replayed and the transactions it traced
Replays(execs) == SelectSeq(execs, LAMBDA e : e.mode = "replay")
Traces(execs) == SelectSeq(execs, LAMBDA e : e.mode = "trace")
\* a state with the accounts of a state override replaced
WithOverride(st, so) ==
    [a \in Acct |-> IF so.some /\ a \in DOMAIN so.accounts THEN so.accounts[a] ELSE st[a]]

\* C11: base-state selection of debug_trace_call_many. When the transaction
\* index is absent or equals the block's transaction count and the block id
\* is not the pending tag, the closure starts on the block's own post-state
\* and replays no block transaction. Otherwise it starts on the parent
\* block's state and executes and commits exactly the first min(index, count)
\* block transactions, in body order, before the first bundle transaction is
\* traced (on that base, with the state override on top when one is given).
C11_BaseSelection ==
    \A r \in ManyFinished :
        LET a == args[r]
            block == TargetBlock(a)
            n == Len(block.body)
            idx == a.transaction_index
            direct == a.id.kind # "pending" /\ (idx = AllTxs \/ idx = n)
            k == IF idx = AllTxs \/ idx > n THEN n ELSE idx
            execs == wout[r].execs
            parent == StateAtBlock(store, block.parent_hash).state
        IN IF direct
           THEN /\ wout[r].state
                /\ Replays(execs) = << >>
                /\ execs # << >> =>
                      execs[1].visible =
                          WithOverride(StateAtBlock(store, block.hash).state, a.state_overrides)
           ELSE block.parent_hash \in KnownHashes =>
                /\ wout[r].state
                /\ Len(Replays(execs)) = k
                /\ \A i \in 1..k :
                      /\ execs[i].mode = "replay"
                      /\ execs[i].tx = block.body[i].hash
                      /\ execs[i].visible = StateAfter(parent, block.body, i - 1)
                      /\ execs[i].committed
                /\ Len(execs) > k =>
                      execs[k + 1].visible =
                          WithOverride(StateAfter(parent, block.body, k), a.state_overrides)

\* a call on the head block with transaction index 1 of at least 2 has
\* replayed one block transaction that changed the state and then traced
C11_Witness ==
    \E r \in ManyFinished :
        /\ args[r].id = LatestId
        /\ args[r].transaction_index = 1
        /\ ~args[r].state_overrides.some
        /\ Len(chain) >= 2
        /\ Len(Replays(wout[r].execs)) = 1
        /\ Len(wout[r].execs) >= 2
        /\ wout[r].execs[2].mode = "trace"
        /\ wout[r].execs[2].visible # wout[r].execs[1].visible
        /\ wout[r].res.ok

\* the bundle that holds the t-th traced transaction of a bundle list,
\* counting from bundle b
RECURSIVE BundleOfTx(_, _, _)
BundleOfTx(bundles, b, t) ==
    IF t <= Len(bundles[b].transactions) THEN b
    ELSE BundleOfTx(bundles, b + 1, t - Len(bundles[b].transactions))

\* C12 (as claimed): for any two adjacent bundles, with or without per-bundle
\* block overrides, the transactions of the later bundle observe a block
\* number greater by 1 and a timestamp greater by 12; all transactions of one
\* bundle observe the same number and timestamp.
C12_BundleTimeAdvanceAnyOverride ==
    \A r \in ManyFinished :
        LET traces == Traces(wout[r].execs)
            bundle(t) == BundleOfTx(args[r].bundles, 1, t)
        IN \A i, j \in 1..Len(traces) :
              /\ bundle(j) = bundle(i) => traces[j].block = traces[i].block
              /\ bundle(j) = bundle(i) + 1 =>
                    /\ traces[j].block.number = traces[i].block.number + 1
                    /\ traces[j].block.timestamp = traces[i].block.timestamp + 12

\* C12 (amended): the block environment carried from bundle to bundle
\* advances by 1 in number and 12 in timestamp per bundle, empty bundles
\* included: transactions of bundles b <= b2 observe timestamps that differ
\* by 12 * (b2 - b), and numbers that differ by b2 - b when neither bundle
\* carries a block override; the transactions of a bundle with a block
\* override observe the overridden number instead; all transactions of one
\* bundle observe the same number and timestamp.
C12_BundleTimeAdvance ==
    \A r \in ManyFinished :
        LET traces == Traces(wout[r].execs)
            bundles == args[r].bundles
            bundle(t) == BundleOfTx(bundles, 1, t)
            over(t) == bundles[bundle(t)].block_override
        IN \A i, j \in 1..Len(traces) :
              /\ bundle(j) = bundle(i) => traces[j].block = traces[i].block
              /\ over(j).some => traces[j].block.number = over(j).number
              /\ bundle(i) <= bundle(j) =>
                    /\ traces[j].block.timestamp =
                          traces[i].block.timestamp + 12 * (bundle(j) - bundle(i))
                    /\ (~over(i).some /\ ~over(j).some) =>
                          traces[j].block.number =
                              traces[i].block.number + (bundle(j) - bundle(i))

\* a call of four bundles, the second one empty, has traced the transactions
\* of the first and of the third bundle, two bundle steps apart
C12_Witness ==
    \E r \in ManyFinished :
        LET traces == Traces(wout[r].execs)
        IN /\ Len(args[r].bundles) = 4
           /\ args[r].bundles[2].transactions = << >>
           /\ Len(traces) >= 3
           /\ traces[2].block.number = traces[1].block.number + 2
           /\ traces[3].block.timestamp = traces[1].block.timestamp + 24

\* C13 (as claimed): the state overrides of debug_trace_call_many are handed
\* to the environment preparation of the first transaction of the first
\* bundle and of no other transaction; when the first bundle has no
\* transactions they are handed to no transaction at all.
C13_StateOverrideTakenOnce ==
    \A r \in ManyFinished :
        LET traces == Traces(wout[r].execs)
        IN \A t \in 1..Len(traces) :
              traces[t].override <=>
                  /\ args[r].state_overrides.some
                  /\ t = 1
                  /\ BundleOfTx(args[r].bundles, 1, t) = 1

\* what the closure of a debug_traceCallMany request would have traced had
\* the request carried no state override
TracesWithoutOverride(a) ==
    Traces(Worker(store, chain, [a EXCEPT !.state_overrides = NoStateOverride]).execs)

\* C14 (as claimed): the account state introduced by the state overrides is
\* visible only to the first transaction of the first bundle; every later
\* transaction is traced on the state it would have seen without the
\* override.
C14_StateOverrideSingleShot ==
    \A r \in ManyFinished :
        LET traces == Traces(wout[r].execs)
            plain == TracesWithoutOverride(args[r])
        IN \A t \in 1..Len(traces) :
              ~(t = 1 /\ BundleOfTx(args[r].bundles, 1, t) = 1) =>
                  traces[t].visible = plain[t].visible

\* requests whose closure has returned after tracing at least one transaction
Traced == {r \in Req : worker[r] = "finished" /\ wout[r].execs # << >>}
\* the state of the chain at the block a request starts from, computed from
\* the chain itself
ChainStateAt(h) ==
    IF h = GenesisHash THEN GenesisState ELSE StateAfter(GenesisState, chain, Len(chain))
StartHash(a) ==
    IF IsBlockTrace(a) THEN ParentHash(a)
    ELSE IF a.method = "traceCallMany" /\ a.transaction_index # AllTxs
         THEN TargetBlock(a).parent_hash
         ELSE block_hash_for_id(a.id)

\* requests whose closure has handled a transaction, whether it is still
\* running or has returned
Executing == {r \in Req : local[r].execs # << >>}

\* C15: override isolation. Whatever overrides and executions the requests
\* carry and however the units of their closures interleave, the state the
\* provider holds for every block stays the state of the chain, and the
\* first transaction of every closure sees the chain's state at its block
\* with nothing but the request's own state override on top: no override or
\* delta of another request, concurrent or earlier, is visible to it.
C15_OverrideIsolation ==
    /\ \A h \in KnownHashes : store[h] = ChainStateAt(h)
    /\ \A r \in Executing :
          local[r].execs[1].visible =
              WithOverride(ChainStateAt(StartHash(args[r])), args[r].state_overrides)
    /\ \A r \in Traced : wout[r].execs[1] = local[r].execs[1]

\* the closure of a bundle call is between two of its transactions, with
\* its state override in its cache, while the closure of a call without
\* overrides on the same block has executed next to it and has seen the
\* account as the chain has it
C15_Witness ==
    \E r, q \in Executing :
        /\ args[r].method = "traceCallMany" /\ args[r].state_overrides.some
        /\ worker[r] = "running" /\ local[r].stage # "returned"
        /\ "A" \in DOMAIN local[r].cache
        /\ args[q].method = "traceCall" /\ ~args[q].state_overrides.some
        /\ args[q].id = args[r].id
        /\ worker[q] = "running"
        /\ local[q].execs[1].visible = ChainStateAt(HeadHash)
        /\ local[q].execs[1].visible # local[r].execs[1].visible

\* requests that select a tracer with a configuration, and a configuration
\* that does not parse as that tracer's
BadConfig == {r \in Req : args[r].opts.tracer \in ConfigTracers /\ ~args[r].opts.cfgOk}

\* C16 (as claimed): for every tracing operation and every selected tracer,
\* a tracer configuration that does not parse makes the request fail with
\* InvalidTracerConfig, and no frame is returned.
C16_InvalidConfigEveryTracer ==
    \A r \in BadConfig :
        pc[r] = "done" =>
            result[r] = [ok |-> FALSE, err |-> "InvalidTracerConfig", val |-> << >>]

\* C16 (amended): debug_trace_call with a configuration that does not parse
\* as the selected tracer's (Call, PreState, Mux, FlatCall) fails with
\* InvalidTracerConfig before it resolves anything.  In a block trace, a
\* transaction trace and debug_trace_call_many the configuration of the
\* Call, PreState and Mux tracers is parsed when the first transaction is
\* handed to the tracer: the closure then returns InvalidTracerConfig and no
\* frame, having run no transaction under the tracer.  A request that never
\* hands a transaction to the tracer does not fail with InvalidTracerConfig.
C16_InvalidConfig ==
    \A r \in BadConfig :
        IF args[r].method = "traceCall"
        THEN /\ worker[r] = "none" /\ ~resolved[r].env
             /\ pc[r] = "done" =>
                   result[r] = [ok |-> FALSE, err |-> "InvalidTracerConfig", val |-> << >>]
        ELSE LET traces == Traces(wout[r].execs)
             IN /\ (args[r].opts.tracer # "flatCall" /\ traces # << >>) =>
                      /\ Len(traces) = 1
                      /\ ~traces[1].ok
                      /\ wout[r].res =
                            [ok |-> FALSE, err |-> "InvalidTracerConfig", val |-> << >>]
                      /\ pc[r] = "done" => result[r] = wout[r].res
                /\ (traces = << >> /\ pc[r] = "done") => result[r].err # "InvalidTracerConfig"

\* a block trace of at least two transactions with the Call tracer and a
\* configuration that does not parse has failed at its first transaction
C16_Witness ==
    \E r \in BadConfig :
        /\ IsBlockTrace(args[r])
        /\ args[r].opts.tracer = "call"
        /\ Len(TracedTxs(args[r])) >= 2
        /\ Len(wout[r].execs) = 1
        /\ pc[r] = "done"
        /\ result[r].err = "InvalidTracerConfig"

\* requests that select the FlatCall tracer with a configuration that parses
FlatCall == {r \in Req : args[r].opts.tracer = "flatCall" /\ args[r].opts.cfgOk}

\* C17 (as claimed): debug_trace_call with the FlatCall tracer yields an
\* Unsupported error, with no transaction lookup, no execution and no frame.
C17_FlatCallUnsupportedOnCall ==
    \A r \in FlatCall :
        args[r].method = "traceCall" =>
            /\ ~resolved[r].env
            /\ worker[r] = "none"
            /\ pc[r] = "done" =>
                  result[r] = [ok |-> FALSE, err |-> "Unsupported", val |-> << >>]

\* C18 (as claimed): on the transaction-trace path (debug_trace_transaction
\* and block traces) the FlatCall tracer with a valid configuration produces
\* a flat-call frame for every transaction it traces, not an Unsupported
\* error.
C18_FlatCallOnTransactionPath ==
    \A r \in FlatCall :
        (args[r].method = "traceTransaction" \/ IsBlockTrace(args[r])) =>
            LET traces == Traces(wout[r].execs)
            IN /\ \A t \in 1..Len(traces) :
                     traces[t].op # "invalid" =>
                         traces[t].ok /\ traces[t].err # "Unsupported"
               /\ pc[r] = "done" => result[r].err # "Unsupported"

\* debug_executionWitness requests whose closure returned a witness
Witnessed ==
    {r \in Req : /\ args[r].method = "executionWitness"
                 /\ worker[r] = "finished" /\ wout[r].res.ok}

\* C19: the witness carries a preimage map exactly when include_preimages
\* is true: with false the map is absent, with true it is present, possibly
\* empty; the handler returns the closure's witness unchanged.
C19_PreimagesPresence ==
    \A r \in Witnessed :
        LET w == wout[r].res.val[1]
        IN /\ w.has_keys <=> args[r].include_preimages
           /\ ~w.has_keys => w.keys = {}
           /\ pc[r] = "done" => result[r] = wout[r].res

\* a witness over a block that touched accounts was returned without a
\* preimage map
C19_Witness ==
    \E r \in Witnessed :
        /\ ~args[r].include_preimages
        /\ pc[r] = "done"
        /\ result[r].ok
        /\ result[r].val[1].state # {}
        /\ ~result[r].val[1].has_keys

\* C20 (as claimed): with include_preimages the preimage map holds an entry
\* for the hashed address of every account of the cache after the replay,
\* i.e. for every key of the hashed-state account buffer, also for accounts
\* that do not exist or were destroyed.
C20_PreimageCompleteness ==
    \A r \in Witnessed :
        LET w == wout[r].res.val[1]
        IN args[r].include_preimages =>
               /\ \A k \in w.state : \E e \in w.keys : e[1] = k
               /\ \A k \in w.storages : \E e \in w.keys : e[1] = k[2]

\* the preimage entries of the witnesses returned with include_preimages
PreimageEntries ==
    UNION {wout[r].res.val[1].keys : r \in {q \in Witnessed : args[q].include_preimages}}

\* C21 (as claimed): the key of every preimage entry is the keccak256 digest
\* of the entry's stored value, the RLP encoding of the address.
C21_KeyIsDigestOfValue ==
    \A e \in PreimageEntries : e[1] = keccak256(e[2])

\* C21 (amended): the key of every preimage entry is the keccak256 digest of
\* an address, or of a storage key, and the value is the RLP encoding of
\* that same address, or storage key.
C21_KeyIsDigestOfDecodedValue ==
    \A e \in PreimageEntries :
        \/ \E a \in Acct : /\ e[1] = keccak256(address_bytes(a))
                           /\ e[2] = rlp_encode(address_bytes(a))
        \/ /\ e[1] = keccak256(slot_bytes(ValueSlot))
           /\ e[2] = rlp_encode(slot_bytes(ValueSlot))

\* a witness whose preimage map holds an address and a storage key was
\* returned to the caller
C21_Witness ==
    \E r \in Witnessed :
        /\ args[r].include_preimages
        /\ pc[r] = "done"
        /\ preimage_entry("A") \in result[r].val[1].keys
        /\ slot_preimage_entry(ValueSlot) \in result[r].val[1].keys

\* raw accessor requests that returned
Accessed == {r \in Req : args[r].method \in AccessMethods /\ pc[r] = "done"}

\* the block ids that resolve to no block
UnknownId(id) == block_hash_for_id(id) = NoHash

\* C22 (as claimed): debug_getRawHeader returns the RLP of the header when
\* the database holds it and the empty byte string, never an error, when
\* the header is absent, for a hash, a number and a tag, pending included.
C22_RawHeaderNeverFails ==
    \A r \in Accessed :
        args[r].method = "getRawHeader" =>
            LET h == block_hash_for_id(args[r].id)
            IN /\ result[r].ok
               /\ result[r].val = IF h \in KnownHashes THEN encode_header(h) ELSE << >>

\* C23: for a block id that resolves to no block debug_getRawTransactions
\* and debug_getRawReceipts return an empty list and debug_getRawBlock fails
\* with HeaderNotFound; no raw accessor takes a permit or spawns a closure.
C23_MissingDataPolicy ==
    \A r \in Accessed :
        /\ permit[r] = "none" /\ worker[r] = "none" /\ ~resolved[r].spawn
        /\ UnknownId(args[r].id) =>
              /\ args[r].method \in {"getRawTransactions", "getRawReceipts"} =>
                    result[r] = OkVal(<< >>)
              /\ args[r].method = "getRawBlock" => result[r] = HeaderNotFound(args[r].id)

\* a list accessor has answered with an empty list for an unknown block
\* while a block trace held the last permit
C23_Witness ==
    /\ permits = 0
    /\ \E r \in Accessed :
          /\ UnknownId(args[r].id)
          /\ args[r].method \in {"getRawTransactions", "getRawReceipts"}
          /\ result[r] = OkVal(<< >>)

\* requests of debug_trace_block, of debug_trace_call_many with bundles and
\* of debug_execution_witness whose selector resolves to no block
UnresolvedBlock ==
    {r \in Req : /\ \/ args[r].method \in {"traceBlockByHash", "traceBlockByNumber",
                                          "executionWitness"}
                    \/ args[r].method = "traceCallMany" /\ args[r].bundles # << >>
                 /\ UnknownId(args[r].id)}

\* requests of debug_trace_transaction for a hash that is in no block
UnresolvedTx ==
    {r \in Req : args[r].method = "traceTransaction" /\ IndexOf(chain, args[r].tx_hash) = 0}

\* C24: a block trace, a debug_trace_call_many with bundles (a pending block
\* that cannot be produced included) and a debug_execution_witness whose
\* selector resolves to no block fail with HeaderNotFound carrying the
\* selector, and debug_trace_transaction for an unknown hash fails with
\* TransactionNotFound; no closure is spawned, no state is acquired and
\* nothing is executed.
C24_UnresolvedSelector ==
    \A r \in UnresolvedBlock \cup UnresolvedTx :
        /\ worker[r] = "none"
        /\ ~wout[r].state
        /\ wout[r].execs = << >>
        /\ pc[r] = "done" =>
              result[r] = IF r \in UnresolvedTx THEN Error("TransactionNotFound")
                          ELSE HeaderNotFound(args[r].id)

\* a debug_trace_call_many on the pending tag has failed with HeaderNotFound
\* because there is no pending block
C24_Witness ==
    \E r \in UnresolvedBlock :
        /\ args[r].method = "traceCallMany"
        /\ is_pending(args[r].id)
        /\ pc[r] = "done"
        /\ result[r] = HeaderNotFound(args[r].id)

\* C25: two block traces with the same block, tracer and configuration, run
\* on the same chain while the units of their closures interleave with each
\* other and with those of other requests, return the same output: the same
\* length, frames and transaction hashes, or the same error. At every
\* point the results the two have collected agree index by index, and what
\* a block trace returns is what it returns when it runs alone on the chain.
C25_BlockTraceDeterminism ==
    \A r, q \in Req :
        (IsBlockTrace(args[r]) /\ args[r] = args[q]) =>
            /\ \A i \in 1..Len(local[r].results) :
                  i <= Len(local[q].results) => local[r].results[i] = local[q].results[i]
            /\ (worker[r] = "finished" /\ worker[q] = "finished") => wout[r] = wout[q]
            /\ (pc[r] = "done" /\ pc[q] = "done") => result[r] = result[q]
            /\ local[r].stage = "returned" =>
                  local[r].out = Worker(ChainState(chain), chain, args[r])

\* two block traces of the same block with the same options run side by
\* side: the closure of one has returned the traces of all transactions of
\* the block while the closure of the other is between two transactions
C25_Witness ==
    \E r, q \in Req :
        /\ r # q
        /\ IsBlockTrace(args[r]) /\ args[r] = args[q]
        /\ worker[r] = "running" /\ local[r].stage = "returned"
        /\ local[r].out.res.ok /\ Len(local[r].out.res.val) = Len(chain)
        /\ Len(chain) > 1
        /\ worker[q] = "running" /\ local[q].stage = "entered"
        /\ Len(local[q].results) >= 1

\* C26: commit discipline of a block trace over n transactions. The delta of
\* a traced tx_i is committed to the overlay exactly when tx_i was traced
\* without error and i < n; the delta of the last transaction is never
\* committed; a transaction whose trace fails ends the loop; a trace that
\* succeeds has recorded one result per transaction.
C26_BlockCommitDiscipline ==
    \A r \in Replayed :
        LET e == wout[r].execs
            n == Len(TracedTxs(args[r]))
        IN /\ Len(e) <= n
           /\ \A i \in 1..Len(e) :
                 /\ e[i].mode = "trace"
                 /\ e[i].committed <=> (e[i].ok /\ i < n)
                 /\ ~e[i].ok => i = Len(e)
           /\ wout[r].res.ok => (Len(wout[r].res.val) = n /\ Len(e) = n)

\* a block trace over three transactions has returned: the deltas of the
\* first two were committed, the delta of the third was not
C26_Witness ==
    \E r \in Replayed :
        /\ wout[r].res.ok
        /\ Len(wout[r].execs) = 3
        /\ wout[r].execs[1].committed
        /\ wout[r].execs[2].committed
        /\ ~wout[r].execs[3].committed

\* the number of transactions in the bundles from bundle b on
RECURSIVE BundleTxCount(_, _)
BundleTxCount(bundles, b) ==
    IF b > Len(bundles) THEN 0
    ELSE Len(bundles[b].transactions) + BundleTxCount(bundles, b + 1)

\* C27: commit discipline of debug_trace_call_many. The delta of a traced
\* bundle transaction is committed exactly when it was traced without error
\* and a later transaction remains in its bundle or a later bundle remains;
\* every traced transaction after the first runs on the state its
\* predecessor ran on with the predecessor's delta applied (the empty delta
\* under the Noop selector); a request that succeeds has traced every
\* transaction, and the last transaction of the last bundle is not committed.
C27_BundleCommitDiscipline ==
    \A r \in ManyFinished :
        LET tr == Traces(wout[r].execs)
            bs == args[r].bundles
            total == BundleTxCount(bs, 1)
            bundle(t) == BundleOfTx(bs, 1, t)
            more_txs(t) == t < total /\ bundle(t + 1) = bundle(t)
            more_bundles(t) == bundle(t) < Len(bs)
            delta(e) == IF args[r].opts.tracer = "noop" THEN EmptyDelta
                        ELSE Execute(e.visible, CallTx(e.op)).state
        IN /\ Len(tr) <= total
           /\ \A t \in 1..Len(tr) :
                 /\ tr[t].committed <=> (tr[t].ok /\ (more_txs(t) \/ more_bundles(t)))
                 /\ t > 1 => tr[t].visible = ApplyDelta(tr[t - 1].visible, delta(tr[t - 1]))
           /\ wout[r].res.ok => Len(tr) = total
           /\ (wout[r].res.ok /\ bs[Len(bs)].transactions # << >>) => ~tr[total].committed

\* a request with two bundles has returned: the last transaction of the first
\* bundle was committed, the transaction of the second bundle ran on a state
\* changed by it and was not committed
C27_Witness ==
    \E r \in ManyFinished :
        LET tr == Traces(wout[r].execs)
        IN /\ wout[r].res.ok
           /\ Len(args[r].bundles) = 2
           /\ Len(tr) = 3
           /\ BundleOfTx(args[r].bundles, 1, 2) = 1
           /\ BundleOfTx(args[r].bundles, 1, 3) = 2
           /\ tr[2].committed
           /\ tr[3].visible # tr[2].visible
           /\ ~tr[3].committed

\* debug_executionWitness requests whose closure ran on an acquired state
WitnessRan ==
    {r \in Req : /\ args[r].method = "executionWitness"
                 /\ worker[r] = "finished" /\ wout[r].state}

\* the accounts the first n transactions of a block load or write when they
\* are executed in order on the state st
RECURSIVE Touched(_, _, _)
Touched(st, txs, n) ==
    IF n = 0 THEN {}
    ELSE LET r == Execute(StateAfter(st, txs, n - 1), txs[n])
         IN Touched(st, txs, n - 1) \cup DOMAIN r.pre \cup DOMAIN r.state

\* the system contracts the pre-block calls have written to on this chain
SystemTouched ==
    {SystemContract(c) : c \in {k \in {"beacon_root", "blockhashes"} :
                                   system_calls[k] = "applied"}}

\* C28: debug_execution_witness runs, on one overlay over the parent state,
\* the beacon-root system call, then the blockhashes system call, then the
\* block's transactions in body order, each on the parent state with the
\* deltas of all earlier transactions, committing every delta, the last
\* included; the provider's witness is requested after all of them, over
\* the accounts the overlay then holds: those the system calls wrote and
\* those the transactions loaded or wrote. A step that fails (either system
\* call, a transaction, the witness computation) is the last step of the
\* request, which fails with an internal error and returns no witness. A
\* closure that is still running has taken its steps in the same order.
C28_WitnessReplayOrder ==
    /\ \A r \in WitnessRan :
          LET e == wout[r].execs
              block == TargetBlock(args[r])
              parent == ChainStateAt(block.parent_hash)
              n == Len(block.body)
          IN /\ Len(e) >= 1 /\ Len(e) <= n + 3
             /\ e[1].op = "beacon_root" /\ e[1].mode = "system" /\ e[1].visible = parent
             /\ e[1].ok <=> system_calls.beacon_root # "error"
             /\ Len(e) >= 2 =>
                   /\ e[2].op = "blockhashes" /\ e[2].mode = "system"
                   /\ e[2].ok <=> system_calls.blockhashes # "error"
             /\ \A i \in 1..n :
                   Len(e) >= i + 2 =>
                       /\ e[i + 2].mode = "replay"
                       /\ e[i + 2].tx = block.body[i].hash
                       /\ e[i + 2].visible = StateAfter(parent, block.body, i - 1)
                       /\ e[i + 2].committed <=> e[i + 2].ok
             /\ Len(e) = n + 3 =>
                   /\ e[n + 3].mode = "witness"
                   /\ e[n + 3].visible = StateAfter(parent, block.body, n)
                   /\ e[n + 3].ok <=> system_calls.witness = "ok"
             /\ \A i \in 1..Len(e) : ~e[i].ok => i = Len(e)
             /\ wout[r].res.ok <=> (Len(e) = n + 3 /\ \A i \in 1..Len(e) : e[i].ok)
             /\ wout[r].res.ok =>
                   /\ wout[r].res.val[1].state =
                         {keccak256(address_bytes(a)) :
                             a \in Touched(parent, block.body, n) \cup SystemTouched}
                   /\ wout[r].res.val[1].storages =
                         {<<keccak256(address_bytes(a)), keccak256(slot_bytes(ValueSlot))>> :
                             a \in {x \in Touched(parent, block.body, n) :
                                       StateAfter(parent, block.body, n)[x] # 0}
                                   \cup SystemTouched}
             /\ ~wout[r].res.ok => wout[r].res = Error("Internal")
    /\ \A r \in Req :
          (args[r].method = "executionWitness" /\ worker[r] = "running") =>
              LET e == local[r].execs
                  n == Len(TargetBlock(args[r]).body)
              IN /\ local[r].stage = "blockhashes" => Len(e) = 1
                 /\ local[r].stage = "transactions" => Len(e) = local[r].i + 1
                 /\ \A i \in 1..Len(e) :
                       e[i].mode = IF i <= 2 THEN "system"
                                   ELSE IF i <= n + 2 THEN "replay" ELSE "witness"
                 /\ local[r].out.res.ok => Len(e) = n + 3

\* a witness over a block of three transactions was returned on a chain
\* where both system calls are applied: the third transaction ran on a
\* state changed by the first two, its own delta was committed, and the
\* witness covers the two system contracts
C28_Witness ==
    \E r \in WitnessRan :
        /\ pc[r] = "done" /\ result[r].ok
        /\ system_calls.beacon_root = "applied" /\ system_calls.blockhashes = "applied"
        /\ Len(wout[r].execs) = 6
        /\ wout[r].execs[5].visible # wout[r].execs[3].visible
        /\ wout[r].execs[5].committed
        /\ wout[r].execs[6].mode = "witness"
        /\ keccak256(address_bytes("beacon_roots")) \in result[r].val[1].state
        /\ keccak256(address_bytes("history_storage")) \in result[r].val[1].state

\* C29 (as claimed): in every tracing handler the permit acquisition
\* completes before the environment is resolved, which completes before the
\* closure acquires its state view, which precedes replay and inspection;
\* once a step has yielded an error no later step of the request runs.
\* The requests of a tracing handler are those whose permit acquisition has
\* had an outcome; a direct call of a public method has no acquisition step
\* and is no case of the claim.
C29_StepOrdering ==
    \A r \in Req :
        permit[r] # "none" =>
            /\ (resolved[r].env \/ resolved[r].spawn \/ worker[r] # "none") =>
                   permit[r] \in {"held", "released"}
            /\ worker[r] # "none" => resolved[r].spawn
            /\ wout[r].state => worker[r] = "finished"
            /\ wout[r].execs # << >> => wout[r].state
            /\ (pc[r] = "done" /\ ~resolved[r].spawn) => worker[r] = "none"

\* what a request returns when it is the only request on the chain: the
\* handler's early result, or the result of its closure run on the states
\* of the chain with no other closure next to it
Alone(a) ==
    LET h == Handler(chain, a)
    IN IF h.spawn THEN Worker(ChainState(chain), chain, a).res ELSE h.res

\* whether a closure that runs alone on the provider's states `st`, from
\* the locals `from` on, has the locals L at the end of one of its units
RECURSIVE OnAlonePath(_, _, _, _)
OnAlonePath(st, a, from, L) ==
    IF from = L THEN TRUE
    ELSE IF from.stage = "returned" THEN FALSE
    ELSE LET s == closure_step(st, chain, a, from) IN OnAlonePath(s.store, a, s.local, L)

\* C30: under any interleaving of the units of concurrent closures, every
\* closure has, after each of its units, the locals (cache, results, trail)
\* it has at that point when it runs alone on the chain's states, it
\* returns what it returns alone, and every request returns the result it
\* produces alone.
C30_RequestIsolation ==
    \A r \in Req :
        /\ worker[r] = "running" => OnAlonePath(ChainState(chain), args[r], Spawn, local[r])
        /\ worker[r] = "finished" => wout[r] = Worker(ChainState(chain), chain, args[r])
        /\ pc[r] = "done" => result[r] = Alone(args[r])

\* a block trace has returned the traces of the whole block to its caller
\* while the closure of a bundle call with a state override on the same
\* block, started next to it, is between two of its transactions with the
\* override and a delta in its cache
C30_Witness ==
    \E r, q \in Req :
        /\ args[r].method = "traceCallMany" /\ args[r].state_overrides.some
        /\ worker[r] = "running" /\ local[r].stage = "entered"
        /\ Len(local[r].execs) >= 2
        /\ local[r].cache # EmptyDelta
        /\ IsBlockTrace(args[q])
        /\ pc[q] = "done" /\ result[q].ok
        /\ Len(result[q].val) > 1

\* C31: block override scoping of debug_trace_call_many. The transactions of
\* the bundle at position b are traced in the shared block environment, the
\* environment of the block advanced by b - 1 bundle steps, with the number
\* replaced by the bundle's own block override when it has one. The override
\* of a bundle reaches each of its transactions and no transaction of
\* another bundle, and the environment carried on never holds it.
C31_BlockOverrideScope ==
    \A r \in ManyFinished :
        LET traces == Traces(wout[r].execs)
            bundles == args[r].bundles
            base == Handler(chain, args[r]).job.block_env
            bundle(t) == BundleOfTx(bundles, 1, t)
            over(t) == bundles[bundle(t)].block_override
            shared(t) ==
                [number |-> base.number + BundleNumberStep * (bundle(t) - 1),
                 timestamp |-> base.timestamp + BundleTimeStep * (bundle(t) - 1)]
        IN \A t \in 1..Len(traces) :
              traces[t].block =
                  IF over(t).some THEN [shared(t) EXCEPT !.number = over(t).number]
                  ELSE shared(t)

\* a first bundle with a block override has traced two transactions at the
\* overridden number, and the transaction of the bundle after it has been
\* traced one bundle step after the block's own environment
C31_Witness ==
    \E r \in ManyFinished :
        LET traces == Traces(wout[r].execs)
            bundles == args[r].bundles
            base == Handler(chain, args[r]).job.block_env
        IN /\ Len(bundles) = 2
           /\ bundles[1].block_override.some
           /\ ~bundles[2].block_override.some
           /\ Len(traces) = 3
           /\ traces[1].block.number = bundles[1].block_override.number
           /\ traces[2].block.number = bundles[1].block_override.number
           /\ traces[2].block.number # base.number
           /\ traces[3].block.number = base.number + BundleNumberStep
           /\ traces[3].block.timestamp = base.timestamp + BundleTimeStep

\* block trace requests that have returned a result list
BlockTraced == {r \in Req : IsBlockTrace(args[r]) /\ pc[r] = "done" /\ result[r].ok}

\* C32: result shape of a successful block trace over tx_1..tx_n. The list
\* returned has exactly n entries, the i-th entry is a Success entry that
\* carries the hash of tx_i, in body order, and no entry is a Failure entry.
C32_BlockTraceResultShape ==
    \A r \in BlockTraced :
        LET txs == TracedTxs(args[r])
            val == result[r].val
        IN /\ Len(val) = Len(txs)
           /\ \A i \in 1..Len(val) :
                 /\ val[i].success
                 /\ val[i].tx_hash = txs[i].hash

\* a block trace over three transactions has returned three entries that
\* carry three different hashes, those of the block's transactions in order
C32_Witness ==
    \E r \in BlockTraced :
        LET txs == TracedTxs(args[r])
            val == result[r].val
        IN /\ Len(txs) = 3 /\ Len(val) = 3
           /\ Cardinality({val[i].tx_hash : i \in 1..3}) = 3
           /\ \A i \in 1..3 : val[i].success /\ val[i].tx_hash = txs[i].hash

\* requests of the block-trace path and of the debug_trace_transaction path
\* whose closure has run on a canonical block
ContextTraced ==
    {r \in Req : /\ args[r].method \in {"traceTransaction", "traceBlockByHash"}
                 /\ worker[r] = "finished"}

\* C33 (as claimed): the TransactionContext handed to the tracer for tx_i of
\* block B carries block_hash = hash of B, tx_index = the number of
\* transactions of B before tx_i, and tx_hash = hash of tx_i, the same on
\* the block-trace path and on the debug_trace_transaction path.
C33_ContextConsistency ==
    \A r \in ContextTraced :
        LET traces == Traces(wout[r].execs)
            first == IF args[r].method = "traceTransaction"
                     THEN IndexOf(chain, args[r].tx_hash) ELSE 1
        IN \A t \in 1..Len(traces) :
              traces[t].ctx =
                  TransactionContext(HeadHash, chain[first + t - 1].hash, first + t - 2)

\* requests that select the Noop tracer
NoopSelected == {r \in Req : args[r].opts.tracer = "noop"}
\* the frames a closure has returned, those of debug_trace_call_many bundle
\* after bundle
RECURSIVE Flatten(_)
Flatten(lists) == IF lists = << >> THEN << >> ELSE Head(lists) \o Flatten(Tail(lists))
ReturnedFrames(r) ==
    IF args[r].method = "traceCallMany" THEN Flatten(wout[r].res.val)
    ELSE IF IsBlockTrace(args[r])
         THEN [i \in 1..Len(wout[r].res.val) |-> wout[r].res.val[i].result]
         ELSE wout[r].res.val

\* C34: with the Noop tracer no EVM execution happens and the state delta
\* is empty. debug_trace_call returns the empty frame without resolving the
\* block, applying overrides or acquiring a state view, also for a block id
\* that resolves to no block. In a block trace and in debug_trace_call_many
\* every transaction handed to the tracer is traced without error, also one
\* the EVM would reject, yields the empty frame, and leaves the overlay as
\* it was: all traced transactions of the request see the same state.
C34_NoopNoExecution ==
    \A r \in NoopSelected :
        IF args[r].method = "traceCall"
        THEN /\ ~resolved[r].env
             /\ worker[r] = "none" /\ ~wout[r].state /\ wout[r].execs = << >>
             /\ pc[r] = "done" => result[r] = OkVal(<<NoopFrame>>)
        ELSE LET traces == Traces(wout[r].execs)
             IN /\ \A t \in 1..Len(traces) :
                      /\ traces[t].ok
                      /\ traces[t].visible = traces[1].visible
                /\ traces # << >> =>
                      /\ wout[r].res.ok
                      /\ Len(ReturnedFrames(r)) = Len(traces)
                      /\ \A i \in 1..Len(traces) : ReturnedFrames(r)[i] = NoopFrame

\* a synthetic call on a block id that resolves to no block, with state and
\* block overrides, has returned the empty frame, next to a block trace that
\* has traced a reverting and an invalid transaction on one and the same state
C34_Witness ==
    \E r, q \in NoopSelected :
        /\ args[r].method = "traceCall"
        /\ block_hash_for_id(args[r].id) = NoHash
        /\ args[r].state_overrides.some /\ args[r].block_overrides.some
        /\ pc[r] = "done" /\ result[r].ok /\ result[r].val = <<NoopFrame>>
        /\ args[q].method = "traceBlock"
        /\ worker[q] = "finished"
        /\ Len(wout[q].execs) = 2
        /\ wout[q].execs[2].op = "invalid" /\ wout[q].execs[2].ok
        /\ wout[q].execs[2].visible = wout[q].execs[1].visible

====
